---- MODULE Spec2Model ----
(***************************************************************************)
(* Model of the agent-workbench client: commands, operations, sessions and *)
(* the file based live protocol between the client and the external agent. *)
(***************************************************************************)
EXTENDS Integers, Sequences, FiniteSets, TLC

(* ------------------------------------------------------------------ *)
(* Bounds of the model                                                  *)
(* ------------------------------------------------------------------ *)

\* number of client calls in one behaviour
MaxCalls == 3

\* number of direct appends / to_dict calls in the operation specification
MaxAppends == 3

\* lifetimes range over multiples of 500 ms, one less and one more
MaxLifetimeSteps == 4

\* number of content items of a Multimodal command
MaxContent == 2

\* number of operations of a Creator or of a document
MaxOps == 2

\* number of entries of the command list of an operation dict
MaxEntries == 2

\* the longest list of saved sessions the agent prints
MaxSessions == 2

\* the most directories in ./resources/snapshots
MaxSnapshots == 2

(* ------------------------------------------------------------------ *)
(* Commands (command.py)                                                *)
(* ------------------------------------------------------------------ *)

\* Command.__init__: the three fields every command carries
Command(command_type, command_name, params) ==
    [command_type |-> command_type, command_name |-> command_name, params |-> params]

\* LLMCommand.__init__: an llm command named after its message type
LLMCommand(message_type, message) ==
    Command("llm", message_type, message)

\* BrowserCommand.__init__
BrowserCommand(command_name, params) ==
    Command("browser", command_name, params)

Navigate(url) ==
    BrowserCommand("open_web_page", [url |-> url])

Sleep(seconds) ==
    BrowserCommand("sleep", [seconds |-> seconds])

Standard(role, content) ==
    LLMCommand("standard", [role |-> role, content |-> content])

Assistant(role, content) ==
    LLMCommand("assistant", [role |-> role, content |-> content])

\* Multimodal.__init__: params holds the content list itself, empty at first
Multimodal(role) ==
    LLMCommand("multimodal", [role |-> role, content |-> << >>])

\* Tool.__init__: the raw message is the params
Tool(message) ==
    LLMCommand("tool", message)

\* BrowserFile.__init__: params["snapshot_name"] = snapshot_name
BrowserFile(command_name, params, file_name, snapshot_name) ==
    BrowserCommand(command_name,
                   [k \in (DOMAIN params) \cup {"snapshot_name"} |->
                       IF k = "snapshot_name" THEN snapshot_name ELSE params[k]])

FullPageScreenshot(quality, name, snapshot_name) ==
    BrowserFile("full_page_screenshot", [quality |-> quality, name |-> name],
                name, snapshot_name)

ElementScreenShot(scale, selector, name, snapshot_name) ==
    BrowserFile("element_screenshot",
                [scale |-> scale, name |-> name, selector |-> selector,
                 snapshot_name |-> snapshot_name],
                name, snapshot_name)

CollectNodes(selector, snapshot_name, wait_ready) ==
    BrowserFile("collect_nodes",
                [wait_ready |-> wait_ready, selector |-> selector,
                 snapshot_name |-> snapshot_name],
                "nodeData.json", snapshot_name)

SaveHtml(snapshot_name) ==
    BrowserFile("save_html", [snapshot_name |-> snapshot_name], "body.txt", snapshot_name)

Click(selector, query_type) ==
    BrowserCommand("click", [selector |-> selector, query_type |-> query_type])

\* IterateHtml.__init__: snapshot_name + "_" + "bench_" + uuid4; a name is the
\* sequence of its parts, so the prefix is the name with two more parts
FolderPrefix(snapshot_name, uid) ==
    snapshot_name \o << "bench", uid >>

\* IterateHtml.__init__: the params carry the run-scoped folder prefix
IterateHtml(uid, iterate_limit, save_html, save_node, save_full_page_image, pause_time, starting_snapshot, snapshot_name) ==
    BrowserCommand("iterate_html",
                   [iter_limit |-> iterate_limit,
                    pause_time |-> pause_time,
                    starting_snapshot |-> starting_snapshot,
                    snapshot_name |-> FolderPrefix(snapshot_name, uid),
                    save_html |-> save_html,
                    save_node |-> save_node,
                    save_full_page_image |-> save_full_page_image])

\* Command.to_dict / LLMCommand.to_dict: the two wire shapes
CommandToDict(c) ==
    IF c.command_type = "llm"
    THEN [message_type |-> c.command_name, message |-> c.params]
    ELSE [command_name |-> c.command_name, params |-> c.params]

\* the commands the client issues in the model
BrowserCommands ==
    {Navigate("https://example.com"), Sleep(2)}

LLMCommands ==
    {Standard("user", "hi"), Assistant("assistant", "hello")}

\* a command of a family no operation of the model has (operation_test.py)
OtherCommands ==
    {Command("test_operation", "command_name", [params_key |-> "params_value"])}

AllCommands ==
    BrowserCommands \cup LLMCommands \cup OtherCommands

(* ------------------------------------------------------------------ *)
(* Operations (operation.py)                                            *)
(* ------------------------------------------------------------------ *)

\* an optional value: <<>> is None, <<v>> is v
None == << >>

Some(v) == << v >>

\* Python truthiness of an optional integer: None and 0 are falsy
Truthy(opt) ==
    opt # None /\ opt[1] # 0

\* the empty dict
EmptyDict == [k \in {} |-> TRUE]

\* Operation.__init__ / _BrowserOperations.__init__ / _LLMOperations.__init__
NewOperation(op_type, timeout, isLive) ==
    [op_type |-> op_type, timeout |-> timeout, live |-> isLive, commands |-> << >>]

\* Operation.get_settings
GetSettings(op) ==
    IF Truthy(op.timeout) THEN [timeout |-> op.timeout[1]] ELSE EmptyDict

\* a to_dict that lists the commands last to first
OperationToDict_Reversed(op) ==
    [type |-> op.op_type,
     settings |-> GetSettings(op),
     command_list |-> [i \in 1..Len(op.commands) |->
                          CommandToDict(op.commands[Len(op.commands) + 1 - i])]]

\* Operation.to_dict
OperationToDict(op) ==
    [type |-> op.op_type,
     settings |-> GetSettings(op),
     command_list |-> [i \in 1..Len(op.commands) |-> CommandToDict(op.commands[i])]]

\* an append without the type guard
OperationAppend_NoGuard(op, command) ==
    [raised |-> "none", commands |-> Append(op.commands, command)]

\* Operation.append: the type guard; the result is the new command sequence or the error
OperationAppend(op, command) ==
    IF command.command_type # op.op_type
    THEN [raised |-> "TypeError", commands |-> op.commands]
    ELSE [raised |-> "none", commands |-> Append(op.commands, command)]

(* ------------------------------------------------------------------ *)
(* State                                                                *)
(* ------------------------------------------------------------------ *)

VARIABLES
    live,          \* Session._live, handed to every operation of the session
    commandsDir,   \* <session>/commands is a directory
    exitTxt,       \* <session>/exit.txt exists
    commandFiles,  \* the files in commands/: name -> [body, complete]
    responses,     \* the files under responses/: records [uid, file, content]
    agentRead,     \* what the agent read from commands/: records [name, content]
    pc,            \* where the client is inside its current call
    call,          \* the call the client is in
    outcome,       \* how the last finished call ended
    operation,     \* the session's browser and llm operation
    nextUid,       \* the next value uuid.uuid4() produces
    calls,         \* number of calls begun
    published,     \* the command files in the order they got their final name
    observed,      \* the calls whose poll saw a response marker
    appended,      \* the commands each operation accepted, in order
    ends,          \* what each end_live_session() that returned did: "written" or "no-op"
    session        \* the Session object the last constructor call built, if any

vars ==
    << live, commandsDir, exitTxt, commandFiles, responses, agentRead, pc, call,
       outcome, operation, nextUid, calls, published, observed, appended, ends, session >>

fsVars ==
    << commandsDir, exitTxt, commandFiles, responses, agentRead >>

\* the contents the agent puts into err.txt
ErrMessages ==
    {"element not found", "timed out"}

\* the message of the assistant reply the agent puts into completion.json
Replies ==
    {[role |-> "assistant", content |-> "hello"]}

NoCall ==
    [id |-> 0, kind |-> "none", uid |-> 0, finalUid |-> 0, body |-> EmptyDict,
     command |-> None, lenBefore |-> 0]

NoOutcome ==
    [id |-> 0, kind |-> "none", result |-> "none", value |-> None]

Outcome(id, kind, result, value) ==
    [id |-> id, kind |-> kind, result |-> result, value |-> value]

\* Session.new_browser_operation / _LLMOperations(...): the operations of a session
SessionOperations(isLive, timeout) ==
    [browser |-> NewOperation("browser", timeout, isLive),
     llm |-> NewOperation("llm", timeout, isLive)]

\* a file name inside commands/: the uuid and what follows it
FileName(uid, ext) ==
    [uid |-> uid, ext |-> ext]

\* the names the agent polls for end in ".json"
EndsWithJson(name) ==
    name.ext \in {".json", "exit.json"}

JsonNames(files) ==
    {n \in DOMAIN files : EndsWithJson(n)}

\* a function without one argument, and with one more
Without(f, x) ==
    [y \in DOMAIN f \ {x} |-> f[y]]

With(f, x, v) ==
    [y \in DOMAIN f \cup {x} |-> IF y = x THEN v ELSE f[y]]

(* ------------------------------------------------------------------ *)
(* The client: session state queries                                    *)
(* ------------------------------------------------------------------ *)

\* a _started that stops holding once exit.txt is there
Started_UntilExit ==
    commandsDir /\ ~exitTxt

\* Operation._started / Session._started: commands/ is a directory
Started ==
    commandsDir

\* an _exited that does not look whether the session has started
OperationExited_NoStartCheck(op) ==
    IF ~op.live THEN "InvalidSessionError"
    ELSE IF exitTxt THEN "True" ELSE "False"

\* Operation._exited: the error it raises, or whether exit.txt exists
OperationExited(op) ==
    IF ~op.live THEN "InvalidSessionError"
    ELSE IF ~Started THEN "InvalidSessionError"
    ELSE IF exitTxt THEN "True" ELSE "False"

\* Session.exited
SessionExited ==
    IF ~live THEN "InvalidSessionError"
    ELSE IF ~Started THEN "InvalidSessionError"
    ELSE IF exitTxt THEN "True" ELSE "False"

\* a status check that looks at success.txt first
CheckCommandStatus_SuccessFirst(uid) ==
    LET errs == {r \in responses : r.uid = uid /\ r.file = "err.txt"}
        succ == {r \in responses : r.uid = uid /\ r.file = "success.txt"}
    IN  IF succ # {}
        THEN [raised |-> "none", message |-> None, done |-> TRUE]
        ELSE IF errs # {}
        THEN [raised |-> "CommandError", message |-> Some((CHOOSE r \in errs : TRUE).content.text),
              done |-> FALSE]
        ELSE [raised |-> "none", message |-> None, done |-> FALSE]

\* a status check that looks at the markers of every uuid
CheckCommandStatus_AnyUid(uid) ==
    LET errs == {r \in responses : r.file = "err.txt"}
        succ == {r \in responses : r.file = "success.txt"}
    IN  IF errs # {}
        THEN [raised |-> "CommandError", message |-> Some((CHOOSE r \in errs : TRUE).content.text),
              done |-> FALSE]
        ELSE [raised |-> "none", message |-> None, done |-> succ # {}]

\* a status check that gives up once the session has exited
CheckCommandStatus_UntilExit(uid) ==
    LET errs == {r \in responses : r.uid = uid /\ r.file = "err.txt"}
        succ == {r \in responses : r.uid = uid /\ r.file = "success.txt"}
    IN  IF errs # {}
        THEN [raised |-> "CommandError", message |-> Some((CHOOSE r \in errs : TRUE).content.text),
              done |-> FALSE]
        ELSE IF exitTxt /\ succ = {}
        THEN [raised |-> "ConnectionError", message |-> None, done |-> FALSE]
        ELSE [raised |-> "none", message |-> None, done |-> succ # {}]

\* Operation._check_command_status: err.txt is looked at first and raises with
\* its contents; otherwise the answer is whether success.txt exists
CheckCommandStatus(uid) ==
    LET errs == {r \in responses : r.uid = uid /\ r.file = "err.txt"}
        succ == {r \in responses : r.uid = uid /\ r.file = "success.txt"}
    IN  IF errs # {}
        THEN [raised |-> "CommandError", message |-> Some((CHOOSE r \in errs : TRUE).content.text),
              done |-> FALSE]
        ELSE [raised |-> "none", message |-> None, done |-> succ # {}]

(* ------------------------------------------------------------------ *)
(* The client: a live command call, step by step                        *)
(* ------------------------------------------------------------------ *)

Idle ==
    pc = "idle" /\ calls < MaxCalls

\* a call that opens the final name directly
OpenPath_Final(c) ==
    FileName(c.finalUid, IF c.kind = "end" THEN "exit.json" ELSE ".json")

\* the path a live call opens for writing: <uid>.json.tmp, and
\* <uid>exit.json.tmp for the exit command
OpenPath(c) ==
    FileName(c.uid, IF c.kind = "end" THEN "exit.json.tmp" ELSE ".json.tmp")

\* a rename to a name that does not end in .json
FinalPath_Marker(c) ==
    FileName(c.finalUid, IF c.kind = "end" THEN "exit.txt" ELSE "success.txt")

\* the path the written file is renamed to
FinalPath(c) ==
    FileName(c.finalUid, IF c.kind = "end" THEN "exit.json" ELSE ".json")

\* what _process leaves in the command list of a live operation: the list as it
\* was (only the batch branch appends)
ProcessLiveCommands(op, command) ==
    op.commands

\* _process with a command built by one of the add_* methods, up to the
\* point where the command file is opened
AddCommand(command) ==
    /\ Idle
    /\ command \in BrowserCommands
    /\ calls' = calls + 1
    /\ nextUid' = nextUid + 1
    /\ UNCHANGED << live, fsVars, published, observed, ends, session >>
    /\ LET op == operation.browser
           id == calls + 1
       IN  IF ~op.live
           THEN LET r == OperationAppend(op, command)
                IN  /\ operation' = [operation EXCEPT !.browser.commands = r.commands]
                    /\ appended' = [appended EXCEPT !.browser = Append(@, command)]
                    /\ outcome' = Outcome(id, "add", "returned", Some(command))
                    /\ UNCHANGED << pc, call >>
           ELSE LET ex == OperationExited(op)
                IN  /\ UNCHANGED << operation, appended >>
                    /\ IF ex = "InvalidSessionError"
                       THEN /\ outcome' = Outcome(id, "add", "InvalidSessionError", None)
                            /\ UNCHANGED << pc, call >>
                       ELSE IF ex = "True"
                       THEN /\ outcome' = Outcome(id, "add", "ConnectionError", None)
                            /\ UNCHANGED << pc, call >>
                       ELSE /\ pc' = "open"
                            /\ call' = [id |-> id, kind |-> "add", uid |-> nextUid,
                                        finalUid |-> nextUid,
                                        body |-> [type |-> "browser",
                                                  command_list |-> << CommandToDict(command) >>],
                                        command |-> Some(command),
                                        lenBefore |-> Len(op.commands)]
                            /\ UNCHANGED outcome

\* _LLMOperations.execute up to the point where the command file is opened
Execute ==
    /\ Idle
    /\ calls' = calls + 1
    /\ nextUid' = nextUid + 1
    /\ UNCHANGED << live, fsVars, published, observed, ends, session, operation, appended >>
    /\ LET op == operation.llm
           id == calls + 1
       IN  IF ~op.live
           THEN /\ outcome' = Outcome(id, "execute", "TypeError", None)
                /\ UNCHANGED << pc, call >>
           ELSE LET ex == OperationExited(op)
                IN  IF ex = "InvalidSessionError"
                    THEN /\ outcome' = Outcome(id, "execute", "InvalidSessionError", None)
                         /\ UNCHANGED << pc, call >>
                    ELSE IF ex = "True"
                    THEN /\ outcome' = Outcome(id, "execute", "ConnectionError", None)
                         /\ UNCHANGED << pc, call >>
                    ELSE /\ pc' = "open"
                         /\ call' = [id |-> id, kind |-> "execute", uid |-> nextUid,
                                     finalUid |-> nextUid,
                                     body |-> OperationToDict(op),
                                     command |-> None,
                                     lenBefore |-> Len(op.commands)]
                         /\ UNCHANGED outcome

\* Session.end_live_session up to the point where the exit file is opened; the
\* temporary and the final name each take their own uuid
EndLiveSession ==
    /\ Idle
    /\ calls' = calls + 1
    /\ UNCHANGED << live, fsVars, published, observed, session, operation, appended >>
    /\ LET id == calls + 1
       IN  IF ~live
           THEN /\ outcome' = Outcome(id, "end", "InvalidSessionError", None)
                /\ UNCHANGED << pc, call, nextUid, ends >>
           ELSE IF SessionExited = "InvalidSessionError"
           THEN /\ outcome' = Outcome(id, "end", "InvalidSessionError", None)
                /\ UNCHANGED << pc, call, nextUid, ends >>
           ELSE IF SessionExited = "True"
           THEN /\ outcome' = Outcome(id, "end", "returned", None)
                /\ ends' = Append(ends, "no-op")
                /\ UNCHANGED << pc, call, nextUid >>
           ELSE /\ pc' = "open"
                /\ nextUid' = nextUid + 2
                /\ call' = [id |-> id, kind |-> "end", uid |-> nextUid,
                            finalUid |-> nextUid + 1,
                            body |-> [type |-> "exit"],
                            command |-> None,
                            lenBefore |-> 0]
                /\ UNCHANGED << outcome, ends >>

\* reading the property Session.exited
QueryExited ==
    /\ Idle
    /\ calls' = calls + 1
    /\ outcome' = IF SessionExited = "InvalidSessionError"
                  THEN Outcome(calls + 1, "exited", "InvalidSessionError", None)
                  ELSE Outcome(calls + 1, "exited", "returned", Some(SessionExited))
    /\ UNCHANGED << live, fsVars, published, observed, session, operation, appended,
                    ends, pc, call, nextUid >>

\* open(pth, "w"): the file exists under the opened name, with nothing in it yet
OpenFile ==
    /\ pc = "open"
    /\ commandFiles' = With(commandFiles, OpenPath(call), [body |-> call.body, complete |-> FALSE])
    /\ pc' = "dump"
    /\ UNCHANGED << live, commandsDir, exitTxt, responses, agentRead, call, outcome,
                    operation, nextUid, calls, published, observed, appended, ends, session >>

\* json.dump and the end of the with block: the whole body is in the file
DumpFile ==
    /\ pc = "dump"
    /\ commandFiles' = [commandFiles EXCEPT ![OpenPath(call)].complete = TRUE]
    /\ pc' = "rename"
    /\ UNCHANGED << live, commandsDir, exitTxt, responses, agentRead, call, outcome,
                    operation, nextUid, calls, published, observed, appended, ends, session >>

\* a call that writes its file once more after the rename
AfterRename_Republish(c) ==
    IF c.kind = "end" THEN "idle" ELSE "open"

\* a call that returns right after the rename, without polling
AfterRename_NoPoll(c) ==
    "idle"

\* where a call goes once its file has its final name: a command call polls
\* for its response, end_live_session returns
AfterRename(c) ==
    IF c.kind = "end" THEN "idle" ELSE "poll"

\* os.rename(pth, final_pth)
RenameFile ==
    /\ pc = "rename"
    /\ commandFiles' = With(Without(commandFiles, OpenPath(call)), FinalPath(call),
                            commandFiles[OpenPath(call)])
    /\ pc' = AfterRename(call)
    /\ IF call.kind = "end"
       THEN /\ outcome' = Outcome(call.id, "end", "returned", None)
            /\ ends' = Append(ends, "written")
            /\ UNCHANGED << call, published >>
       ELSE /\ published' = Append(published,
                                   [call |-> call.id, uid |-> call.finalUid, prior |-> observed])
            /\ UNCHANGED << outcome, call, ends >>
    /\ UNCHANGED << live, commandsDir, exitTxt, responses, agentRead,
                    operation, nextUid, calls, observed, appended, session >>

\* an execute() that appends the reply itself
ExecuteCommands_Append(op, reply) ==
    Append(op.commands, reply)

\* what execute() leaves in the operation's own command list: the list as it was
\* (the reply is returned; add_response is what puts it into the list)
ExecuteCommands(op, reply) ==
    op.commands

\* one pass of `while not self._check_command_status(uid)` that ends the loop
PollStatus ==
    /\ pc = "poll"
    /\ LET st == CheckCommandStatus(call.uid)
       IN  /\ st.raised # "none" \/ st.done
           /\ observed' = observed \cup {call.id}
           /\ IF st.raised # "none"
              THEN /\ outcome' = Outcome(call.id, call.kind, st.raised, st.message)
                   /\ pc' = "idle"
                   /\ UNCHANGED call
                   /\ UNCHANGED operation
              ELSE IF call.kind = "add"
              THEN /\ outcome' = Outcome(call.id, call.kind, "returned", call.command)
                   /\ pc' = "idle"
                   /\ UNCHANGED call
                   /\ operation' = [operation EXCEPT !.browser.commands =
                                        ProcessLiveCommands(operation.browser, call.command[1])]
              ELSE /\ pc' = "load"
                   /\ UNCHANGED << outcome, call, operation >>
    /\ UNCHANGED << live, fsVars, nextUid, calls, published, appended, ends, session >>

\* the end of execute(): completion.json is opened and the last message becomes
\* the Assistant command that is returned
LoadCompletion ==
    /\ pc = "load"
    /\ LET comp == {r \in responses : r.uid = call.uid /\ r.file = "completion.json"}
       IN  IF comp = {}
           THEN /\ outcome' = Outcome(call.id, "execute", "FileNotFoundError", None)
                /\ UNCHANGED operation
           ELSE LET response == (CHOOSE r \in comp : TRUE).content
                    msg == response.message_list[Len(response.message_list)].message
                    reply == Assistant(msg.role, msg.content)
                IN  /\ outcome' = Outcome(call.id, "execute", "returned", Some(reply))
                    /\ operation' = [operation EXCEPT !.llm.commands =
                                         ExecuteCommands(operation.llm, reply)]
    /\ pc' = "idle"
    /\ UNCHANGED << call, live, fsVars, nextUid, calls, published, observed, appended, ends, session >>

\* add_standard_command / add_assistant_command: append to the llm operation
AddMessage(command) ==
    /\ Idle
    /\ command \in LLMCommands
    /\ calls' = calls + 1
    /\ LET r == OperationAppend(operation.llm, command)
       IN  /\ operation' = [operation EXCEPT !.llm.commands = r.commands]
           /\ appended' = [appended EXCEPT !.llm = Append(@, command)]
           /\ outcome' = Outcome(calls + 1, "message", "returned", Some(command))
    /\ UNCHANGED << live, fsVars, pc, call, nextUid, published, observed, ends, session >>

\* add_response(com) with the reply execute() returned last
AddResponse ==
    /\ Idle
    /\ outcome.kind = "execute"
    /\ outcome.result = "returned"
    /\ calls' = calls + 1
    /\ LET r == OperationAppend(operation.llm, outcome.value[1])
       IN  /\ operation' = [operation EXCEPT !.llm.commands = r.commands]
           /\ appended' = [appended EXCEPT !.llm = Append(@, outcome.value[1])]
           /\ outcome' = Outcome(calls + 1, "response", "returned", None)
    /\ UNCHANGED << live, fsVars, pc, call, nextUid, published, observed, ends, session >>

(* ------------------------------------------------------------------ *)
(* The external agent, as the client's code expects it to act on the    *)
(* session directory                                                    *)
(* ------------------------------------------------------------------ *)

\* the agent process of a live session creates commands/
AgentStart ==
    /\ live
    /\ ~commandsDir
    /\ commandsDir' = TRUE
    /\ UNCHANGED << live, exitTxt, commandFiles, responses, agentRead, pc, call, outcome,
                    operation, nextUid, calls, published, observed, appended, ends, session >>

\* the agent reads a file of commands/ whose name ends in .json
AgentReadCommand(name) ==
    /\ name \in JsonNames(commandFiles)
    /\ [name |-> name, content |-> commandFiles[name]] \notin agentRead
    /\ agentRead' = agentRead \cup {[name |-> name, content |-> commandFiles[name]]}
    /\ UNCHANGED << live, commandsDir, exitTxt, commandFiles, responses, pc, call, outcome,
                    operation, nextUid, calls, published, observed, appended, ends, session >>

\* the command documents the agent has read, by the type they carry
AgentKnown(types) ==
    {r.name.uid : r \in {x \in agentRead : x.content.body.type \in types}}

\* the agent answers a command it has read with a file under responses/<uuid>/
AgentWrite(uid, types, file, content) ==
    /\ uid \in AgentKnown(types)
    /\ \A r \in responses : ~(r.uid = uid /\ r.file = file)
    /\ responses' = responses \cup {[uid |-> uid, file |-> file, content |-> content]}
    /\ UNCHANGED << live, commandsDir, exitTxt, commandFiles, agentRead, pc, call, outcome,
                    operation, nextUid, calls, published, observed, appended, ends, session >>

AgentSuccess(uid) ==
    AgentWrite(uid, {"browser", "llm"}, "success.txt", [text |-> ""])

AgentErr(uid, message) ==
    AgentWrite(uid, {"browser", "llm"}, "err.txt", [text |-> message])

\* the reply to an llm document: completion.json with the message list
AgentCompletion(uid, message) ==
    AgentWrite(uid, {"llm"}, "completion.json", [message_list |-> << [message |-> message] >>])

\* the agent ends the session (exit command read, or lifetime over): exit.txt
AgentExit ==
    /\ commandsDir
    /\ ~exitTxt
    /\ exitTxt' = TRUE
    /\ UNCHANGED << live, commandsDir, commandFiles, responses, agentRead, pc, call, outcome,
                    operation, nextUid, calls, published, observed, appended, ends, session >>

(* ------------------------------------------------------------------ *)
(* The live specification                                               *)
(* ------------------------------------------------------------------ *)

\* the commands and messages the client sends in the live specification
LiveCommands ==
    {Navigate("https://example.com")}

LiveMessages ==
    {Standard("user", "hi")}

Uids ==
    0..(2 * MaxCalls)

Init ==
    /\ live \in BOOLEAN
    /\ commandsDir = FALSE
    /\ exitTxt = FALSE
    /\ commandFiles = EmptyDict
    /\ responses = {}
    /\ agentRead = {}
    /\ pc = "idle"
    /\ call = NoCall
    /\ outcome = NoOutcome
    /\ operation = SessionOperations(live, None)
    /\ nextUid = 1
    /\ calls = 0
    /\ published = << >>
    /\ observed = {}
    /\ appended = [browser |-> << >>, llm |-> << >>]
    /\ ends = << >>
    /\ session = None

Next ==
    \/ \E c \in LiveCommands : AddCommand(c)
    \/ Execute
    \/ EndLiveSession
    \/ QueryExited
    \/ OpenFile
    \/ DumpFile
    \/ RenameFile
    \/ PollStatus
    \/ LoadCompletion
    \/ \E c \in LiveMessages : AddMessage(c)
    \/ AddResponse
    \/ AgentStart
    \/ \E n \in DOMAIN commandFiles : AgentReadCommand(n)
    \/ \E u \in Uids : AgentSuccess(u)
    \/ \E u \in Uids, m \in ErrMessages : AgentErr(u, m)
    \/ \E u \in Uids, m \in Replies : AgentCompletion(u, m)
    \/ AgentExit

Spec ==
    Init /\ [][Next]_vars

(* ------------------------------------------------------------------ *)
(* The operation specification: appends and to_dict on batch operations *)
(* ------------------------------------------------------------------ *)

\* the timeouts an operation is built with
Timeouts ==
    {None, Some(0), Some(5000)}

OpKinds ==
    {"browser", "llm"}

\* operation.append(command), called directly
AppendCommand(kind, command) ==
    /\ calls < MaxAppends
    /\ calls' = calls + 1
    /\ LET r == OperationAppend(operation[kind], command)
       IN  /\ operation' = [operation EXCEPT ![kind].commands = r.commands]
           /\ appended' = IF r.raised = "none"
                          THEN [appended EXCEPT ![kind] = Append(@, command)]
                          ELSE appended
           /\ outcome' = Outcome(calls + 1, "append",
                                 IF r.raised = "none" THEN "returned" ELSE r.raised,
                                 Some([op |-> kind, command |-> command]))
    /\ UNCHANGED << live, fsVars, pc, call, nextUid, published, observed, ends, session >>

\* operation.to_dict()
ToDict(kind) ==
    /\ outcome.kind # "to_dict"
    /\ outcome' = Outcome(calls, "to_dict", "returned",
                          Some([op |-> kind, dict |-> OperationToDict(operation[kind])]))
    /\ UNCHANGED << live, fsVars, pc, call, nextUid, calls, published, observed,
                    operation, appended, ends, session >>

InitOps ==
    /\ live = FALSE
    /\ commandsDir = FALSE
    /\ exitTxt = FALSE
    /\ commandFiles = EmptyDict
    /\ responses = {}
    /\ agentRead = {}
    /\ pc = "idle"
    /\ call = NoCall
    /\ outcome = NoOutcome
    /\ \E t \in Timeouts : operation = SessionOperations(FALSE, t)
    /\ nextUid = 1
    /\ calls = 0
    /\ published = << >>
    /\ observed = {}
    /\ appended = [browser |-> << >>, llm |-> << >>]
    /\ ends = << >>
    /\ session = None

NextOps ==
    \/ \E k \in OpKinds, c \in AllCommands : AppendCommand(k, c)
    \/ \E k \in OpKinds : ToDict(k)

SpecOps ==
    InitOps /\ [][NextOps]_vars

(* ------------------------------------------------------------------ *)
(* The session specification: constructing Session objects             *)
(* ------------------------------------------------------------------ *)

\* session.py divides the session lifetime by 1000 and multiplies it back
MsPerSecond == 1000

\* the defaults of Session.__init__
DefaultSessionLifetime == 32766

DefaultCommandLifetime == 5000

\* the lifetimes tried, in milliseconds
Lifetimes ==
    {k * 500 + d : k \in 0..MaxLifetimeSteps, d \in {-1, 0, 1}}
        \cup {DefaultSessionLifetime, DefaultCommandLifetime}

\* Session.__init__: the two lifetime checks, then the object
SessionInit(isLive, session_lifetime, command_lifetime) ==
    IF command_lifetime < 0
    THEN [raised |-> "ValueError", session |-> None]
    ELSE IF ((session_lifetime \div MsPerSecond) * MsPerSecond) < command_lifetime
    THEN [raised |-> "ValueError", session |-> None]
    ELSE [raised |-> "none",
          session |-> Some([live |-> isLive,
                            command_lifetime |-> command_lifetime,
                            session_lifetime |-> session_lifetime])]

\* Session(live=..., session_lifetime=..., command_lifetime=...)
NewSession(isLive, session_lifetime, command_lifetime) ==
    /\ LET r == SessionInit(isLive, session_lifetime, command_lifetime)
       IN  /\ session' = r.session
           /\ outcome' = Outcome(0, "session",
                                 IF r.raised = "none" THEN "returned" ELSE r.raised,
                                 Some([session_lifetime |-> session_lifetime,
                                       command_lifetime |-> command_lifetime]))
    /\ UNCHANGED << live, fsVars, pc, call, nextUid, calls, published, observed,
                    operation, appended, ends >>

NextSession ==
    \E sl \in Lifetimes, cl \in Lifetimes : NewSession(live, sl, cl)

SpecSession ==
    Init /\ [][NextSession]_vars

(* ------------------------------------------------------------------ *)
(* The command specification: wire dicts and Multimodal content         *)
(* ------------------------------------------------------------------ *)

\* what a constructor or loader hands back: the object, or the error raised
Returned(v) ==
    [raised |-> "none", value |-> Some(v)]

Raised(e) ==
    [raised |-> e, value |-> None]

\* d[k1][k2] exists (a missing key raises KeyError)
HasKeys(d, k1, keys) ==
    k1 \in DOMAIN d /\ keys \subseteq DOMAIN d[k1]

\* the files an open(content, "rb") finds
ImageFiles ==
    {"y.png"}

\* f"data:image/{encoded};base64,{encoded}" for the file y.png, whose bytes are "hi"
DataUri(path) ==
    "data:image/aGk=;base64,aGk="

\* an add_content that appends before it looks at the type
MultimodalAddContent_AppendFirst(c, ctype, content, b64) ==
    IF ctype \in {"text", "image_url"}
    THEN Returned([c EXCEPT !.params.content =
                      Append(@, IF ctype = "text"
                                THEN [type |-> ctype, text |-> content]
                                ELSE [type |-> ctype, image_url |-> [url |-> content]])])
    ELSE [raised |-> "ValueError",
          value |-> Some([c EXCEPT !.params.content = Append(@, [type |-> ctype])])]

\* Multimodal.add_content: one item per call, ValueError for another type; the
\* value is the command after the call, also when the call raised
MultimodalAddContent(c, ctype, content, b64) ==
    IF ctype = "text"
    THEN Returned([c EXCEPT !.params.content =
                      Append(@, [type |-> ctype, text |-> content])])
    ELSE IF ctype = "image_url"
    THEN IF b64 /\ content \notin ImageFiles
         THEN [raised |-> "FileNotFoundError", value |-> Some(c)]
         ELSE Returned([c EXCEPT !.params.content =
                           Append(@, [type |-> ctype,
                                      image_url |-> [url |-> IF b64 THEN DataUri(content)
                                                                    ELSE content]])])
    ELSE [raised |-> "ValueError", value |-> Some(c)]

RECURSIVE MultimodalLoadContent(_, _)
\* Multimodal.init_from_dict, the loop: text items by their text, every other
\* item by its image_url.url
MultimodalLoadContent(c, items) ==
    IF items = << >>
    THEN Returned(c)
    ELSE LET item == Head(items)
             r == IF item.type = "text"
                  THEN IF "text" \in DOMAIN item
                       THEN MultimodalAddContent(c, item.type, item.text, FALSE)
                       ELSE Raised("KeyError")
                  ELSE IF HasKeys(item, "image_url", {"url"})
                       THEN MultimodalAddContent(c, item.type, item.image_url.url, FALSE)
                       ELSE Raised("KeyError")
         IN  IF r.raised # "none"
             THEN Raised(r.raised)
             ELSE MultimodalLoadContent(r.value[1], Tail(items))

\* V.init_from_dict(d) for the variant V of command.py
InitFromDict(variant, d, uid) ==
    CASE variant = "open_web_page" ->
            IF HasKeys(d, "params", {"url"})
            THEN Returned(Navigate(d.params.url))
            ELSE Raised("KeyError")
      [] variant = "full_page_screenshot" ->
            IF HasKeys(d, "params", {"quality", "name", "snapshot_name"})
            THEN Returned(FullPageScreenshot(d.params.quality, d.params.name,
                                             d.params.snapshot_name))
            ELSE Raised("KeyError")
      [] variant = "element_screenshot" ->
            IF HasKeys(d, "params", {"scale", "selector", "name", "snapshot_name"})
            THEN Returned(ElementScreenShot(d.params.scale, d.params.selector,
                                            d.params.name, d.params.snapshot_name))
            ELSE Raised("KeyError")
      [] variant = "collect_nodes" ->
            IF HasKeys(d, "params", {"selector", "snapshot_name", "wait_ready"})
            THEN Returned(CollectNodes(d.params.selector, d.params.snapshot_name,
                                       d.params.wait_ready))
            ELSE Raised("KeyError")
      [] variant = "save_html" ->
            IF HasKeys(d, "params", {"snapshot_name"})
            THEN Returned(SaveHtml(d.params.snapshot_name))
            ELSE Raised("KeyError")
      [] variant = "sleep" ->
            IF HasKeys(d, "params", {"seconds"})
            THEN Returned(Sleep(d.params.seconds))
            ELSE Raised("KeyError")
      [] variant = "click" ->
            IF HasKeys(d, "params", {"selector", "query_type"})
            THEN Returned(Click(d.params.selector, d.params.query_type))
            ELSE Raised("KeyError")
      [] variant = "iterate_html" ->
            \* the keys are read from the dict itself, the first as "iter_limt"
            IF {"iter_limt", "save_html", "save_node", "save_full_page_image",
                "pause_time", "starting_snapshot", "snapshot_name"} \subseteq DOMAIN d
            THEN Returned(IterateHtml(uid, d.iter_limt, d.save_html, d.save_node,
                                      d.save_full_page_image, d.pause_time,
                                      d.starting_snapshot, d.snapshot_name))
            ELSE Raised("KeyError")
      [] variant = "standard" ->
            IF HasKeys(d, "message", {"role", "content"})
            THEN Returned(Standard(d.message.role, d.message.content))
            ELSE Raised("KeyError")
      [] variant = "assistant" ->
            IF HasKeys(d, "message", {"role", "content"})
            THEN Returned(Assistant(d.message.role, d.message.content))
            ELSE Raised("KeyError")
      [] variant = "multimodal" ->
            IF HasKeys(d, "message", {"role", "content"})
            THEN MultimodalLoadContent(Multimodal(d.message.role), d.message.content)
            ELSE Raised("KeyError")
      [] variant = "tool" ->
            IF "message" \in DOMAIN d
            THEN Returned(Tool(d.message))
            ELSE Raised("KeyError")

\* the values the wire dicts of the model are built from
Urls ==
    {"https://example.com", "http://x/y.png"}

Names ==
    {"shot.png", "s1"}

Selectors ==
    {"//div", "#main"}

Roles ==
    {"user", "system"}

Texts ==
    {"hi", "http://x/y.png", "y.png"}

\* the content items of a multimodal wire dict
ContentItems ==
    {[type |-> "text", text |-> t] : t \in {"hi"}}
        \cup {[type |-> "image_url", image_url |-> [url |-> u]] : u \in {"http://x/y.png"}}

\* the sequences over S of length at most n
RECURSIVE SeqsUpTo(_, _)
SeqsUpTo(S, n) ==
    IF n = 0
    THEN {<< >>}
    ELSE LET shorter == SeqsUpTo(S, n - 1)
         IN  shorter \cup {Append(s, x) : s \in shorter, x \in S}

\* the params an iterate_html command is built from
IterateParams ==
    [iter_limit : {1, 3}, pause_time : {5000}, starting_snapshot : {0},
     snapshot_name : {<< "snapshot" >>, << "snapshot", "bench", 7 >>},
     save_html : BOOLEAN, save_node : BOOLEAN, save_full_page_image : {TRUE}]

\* the well-formed wire dicts: {command_name, params} and {message_type, message}
WireDicts ==
    {[command_name |-> "open_web_page", params |-> [url |-> u]] : u \in Urls}
    \cup {[command_name |-> "full_page_screenshot",
           params |-> [quality |-> q, name |-> n, snapshot_name |-> s]] :
             q \in {10, 100}, n \in Names, s \in Names}
    \cup {[command_name |-> "element_screenshot",
           params |-> [scale |-> q, selector |-> x, name |-> n, snapshot_name |-> s]] :
             q \in {1, 2}, x \in Selectors, n \in Names, s \in Names}
    \cup {[command_name |-> "collect_nodes",
           params |-> [wait_ready |-> w, selector |-> x, snapshot_name |-> s]] :
             w \in BOOLEAN, x \in Selectors, s \in Names}
    \cup {[command_name |-> "save_html", params |-> [snapshot_name |-> s]] : s \in Names}
    \cup {[command_name |-> "sleep", params |-> [seconds |-> n]] : n \in {0, 2}}
    \cup {[command_name |-> "click", params |-> [selector |-> x, query_type |-> q]] :
             x \in Selectors, q \in {"x_path", "css"}}
    \cup {[command_name |-> "iterate_html", params |-> p] : p \in IterateParams}
    \cup {[message_type |-> "standard", message |-> [role |-> r, content |-> t]] :
             r \in Roles, t \in {"hi", "yo"}}
    \cup {[message_type |-> "assistant", message |-> [role |-> r, content |-> t]] :
             r \in {"assistant"}, t \in {"hello", "yo"}}
    \cup {[message_type |-> "multimodal", message |-> [role |-> r, content |-> c]] :
             r \in Roles, c \in SeqsUpTo(ContentItems, MaxContent)}
    \cup {[message_type |-> "tool", message |-> m] :
             m \in {[role |-> "tool", content |-> "42"],
                    [role |-> "tool", content |-> "42", tool_call_id |-> "t1"]}}

\* the dicts IterateHtml.init_from_dict can read: its params, one key misspelt
FlatIterateDicts ==
    {[iter_limt |-> p.iter_limit, pause_time |-> p.pause_time,
      starting_snapshot |-> p.starting_snapshot, snapshot_name |-> p.snapshot_name,
      save_html |-> p.save_html, save_node |-> p.save_node,
      save_full_page_image |-> p.save_full_page_image] : p \in IterateParams}

\* the variant a wire dict names
VariantOf(d) ==
    IF "command_name" \in DOMAIN d THEN d.command_name ELSE d.message_type

\* V.init_from_dict(d).to_dict()
RoundTrip(variant, d) ==
    /\ LET r == InitFromDict(variant, d, nextUid)
       IN  /\ (variant = "iterate_html" /\ r.raised = "none") => nextUid < 2 * MaxCalls
           /\ outcome' = Outcome(0, "round_trip",
                                 IF r.raised = "none" THEN "returned" ELSE r.raised,
                                 Some([variant |-> variant, input |-> d,
                                       output |-> IF r.raised = "none"
                                                  THEN Some(CommandToDict(r.value[1]))
                                                  ELSE None]))
           /\ nextUid' = IF variant = "iterate_html" /\ r.raised = "none"
                         THEN nextUid + 1
                         ELSE nextUid
    /\ UNCHANGED << live, fsVars, pc, call, calls, published, observed,
                    operation, appended, ends, session >>

\* m = Multimodal(role)
NewMultimodal(role) ==
    /\ call' = [NoCall EXCEPT !.kind = "multimodal", !.command = Some(Multimodal(role))]
    /\ outcome' = Outcome(0, "multimodal", "returned", None)
    /\ UNCHANGED << live, fsVars, pc, nextUid, calls, published, observed,
                    operation, appended, ends, session >>

\* m.add_content(ctype, content, b64)
AddContent(ctype, content, b64) ==
    /\ call.kind = "multimodal"
    /\ LET r == MultimodalAddContent(call.command[1], ctype, content, b64)
       IN  /\ Len(r.value[1].params.content) <= MaxContent
           /\ call' = [call EXCEPT !.command = r.value]
           /\ outcome' = Outcome(0, "add_content",
                                 IF r.raised = "none" THEN "returned" ELSE r.raised,
                                 Some([ctype |-> ctype, content |-> content, b64 |-> b64]))
    /\ UNCHANGED << live, fsVars, pc, nextUid, calls, published, observed,
                    operation, appended, ends, session >>

\* the content types tried, one of them unknown
ContentTypes ==
    {"text", "image_url", "video"}

\* no session, no file, no call yet; the operations are not used
InitCommands ==
    /\ InitOps
    /\ operation = SessionOperations(FALSE, None)

NextRoundTrip ==
    \/ \E d \in WireDicts : RoundTrip(VariantOf(d), d)
    \/ \E d \in FlatIterateDicts : RoundTrip("iterate_html", d)

SpecRoundTrip ==
    InitCommands /\ [][NextRoundTrip]_vars

NextMultimodal ==
    \/ \E r \in Roles : NewMultimodal(r)
    \/ \E t \in ContentTypes, c \in Texts, b \in BOOLEAN : AddContent(t, c, b)

SpecMultimodal ==
    InitCommands /\ [][NextMultimodal]_vars

(* ------------------------------------------------------------------ *)
(* The settings specification: constructing operations, get_settings    *)
(* in operation.py, agent/config/operations.py and config/operations.py *)
(* ------------------------------------------------------------------ *)

\* the largest timeout operations.py accepts
MaxTimeout == 32767

\* the three revisions of the operation classes
Revisions ==
    {"operation", "operations", "config"}

\* an argument left out of the call, and one that was passed
Omitted == << >>

Given(v) == << v >>

\* the argument the constructor sees for timeout: what was passed, or the default None
TimeoutArg(given) ==
    IF given = Omitted THEN None ELSE given[1]

\* 0 <= timeout <= 32767
InRange(timeout) ==
    0 <= timeout[1] /\ timeout[1] <= MaxTimeout

\* Operation.__init__ (operation.py, the range check is commented out),
\* Operations.__init__ (agent/config/operations.py: `timeout and not in range`),
\* Operations.__init__ (config/operations.py: `not (timeout and in range)`, and
\* the default of timeout is the type expression None | int, which
\* 0 <= timeout cannot compare)
OperationInit(revision, op_type, given) ==
    LET timeout == TimeoutArg(given)
        op == [revision |-> revision, op_type |-> op_type, timeout |-> timeout,
               live |-> FALSE, commands |-> << >>]
    IN  CASE revision = "operation" ->
                Returned(op)
          [] revision = "operations" ->
                IF Truthy(timeout) /\ ~InRange(timeout)
                THEN Raised("Exception")
                ELSE Returned(op)
          [] revision = "config" ->
                IF given = Omitted
                THEN Raised("TypeError")
                ELSE IF ~(Truthy(timeout) /\ InRange(timeout))
                THEN Raised("Exception")
                ELSE Returned(op)

\* _BrowserOperations.__init__ / BrowserOperations.__init__: the base, then headless
BrowserOperationsInit(revision, headless, given) ==
    LET r == OperationInit(revision, "browser", given)
    IN  IF r.raised # "none"
        THEN r
        ELSE Returned(With(r.value[1], "headless", headless))

\* _LLMOperations.__init__ / LLMOperations.__init__: the base, then the settings
\* dict, which has the key workflow in the two operations.py
LLMOperationsInit(revision, try_limit, given, max_tokens, llm_settings, workflow_type) ==
    LET r == OperationInit(revision, "llm", given)
        settings == [try_limit |-> try_limit, max_tokens |-> max_tokens,
                     llm_settings |-> llm_settings]
    IN  IF r.raised # "none"
        THEN r
        ELSE Returned(With(r.value[1], "settings",
                           IF revision = "operation"
                           THEN settings
                           ELSE With(settings, "workflow",
                                     [workflow_type |-> workflow_type])))

\* dict.update
Update(a, b) ==
    [k \in (DOMAIN a) \cup (DOMAIN b) |-> IF k \in DOMAIN b THEN b[k] ELSE a[k]]

\* _BrowserOperations.get_settings (operation.py) sets headless in the dict it
\* returns; BrowserOperations.get_settings (both operations.py) sets it in one
\* dict from super().get_settings() and returns a second one
BrowserGetSettings(op) ==
    IF op.revision = "operation"
    THEN With(GetSettings(op), "headless", op.headless)
    ELSE LET first == With(GetSettings(op), "headless", op.headless)
         IN  GetSettings(op)

\* _LLMOperations.get_settings / LLMOperations.get_settings
LLMGetSettings(op) ==
    Update(GetSettings(op), op.settings)

\* op.get_settings(), by the class of op
GetSettingsOf(op) ==
    IF "headless" \in DOMAIN op
    THEN BrowserGetSettings(op)
    ELSE IF "settings" \in DOMAIN op
    THEN LLMGetSettings(op)
    ELSE GetSettings(op)

\* op.to_dict() with the get_settings of the class of op
ToDictOf(op) ==
    [type |-> op.op_type,
     settings |-> GetSettingsOf(op),
     command_list |-> [i \in 1..Len(op.commands) |-> CommandToDict(op.commands[i])]]

\* the timeout arguments tried
TimeoutArgs ==
    {Omitted, Given(None)}
        \cup {Given(Some(t)) : t \in {-1, 0, 30, MaxTimeout, MaxTimeout + 1}}

\* the provider settings of the llm operations of the model
ProviderSettings ==
    << [name |-> "OpenAI", api_key |-> "someKey"] >>

\* BrowserOperations(headless, timeout) of a revision
NewBrowserOperations(revision, headless, given) ==
    /\ LET r == BrowserOperationsInit(revision, headless, given)
       IN  /\ operation' = IF r.raised = "none"
                           THEN [operation EXCEPT !.browser = r.value[1]]
                           ELSE operation
           /\ outcome' = Outcome(0, "construct",
                                 IF r.raised = "none" THEN "returned" ELSE r.raised,
                                 Some([revision |-> revision, op |-> "browser",
                                       given |-> given]))
    /\ UNCHANGED << live, fsVars, pc, call, nextUid, calls, published, observed,
                    appended, ends, session >>

\* LLMOperations(try_limit, timeout, max_tokens, llm_settings, ...) of a revision
NewLLMOperations(revision, try_limit, given) ==
    /\ LET r == LLMOperationsInit(revision, try_limit, given, 300, ProviderSettings,
                                  "chat_completion")
       IN  /\ operation' = IF r.raised = "none"
                           THEN [operation EXCEPT !.llm = r.value[1]]
                           ELSE operation
           /\ outcome' = Outcome(0, "construct",
                                 IF r.raised = "none" THEN "returned" ELSE r.raised,
                                 Some([revision |-> revision, op |-> "llm",
                                       given |-> given]))
    /\ UNCHANGED << live, fsVars, pc, call, nextUid, calls, published, observed,
                    appended, ends, session >>

\* op.get_settings() on an operation that was constructed
CallGetSettings(kind) ==
    /\ "revision" \in DOMAIN operation[kind]
    /\ outcome' = Outcome(0, "get_settings", "returned",
                          Some([op |-> kind, settings |-> GetSettingsOf(operation[kind])]))
    /\ UNCHANGED << live, fsVars, pc, call, nextUid, calls, published, observed,
                    operation, appended, ends, session >>

NextSettings ==
    \/ \E r \in Revisions, h \in BOOLEAN, g \in TimeoutArgs : NewBrowserOperations(r, h, g)
    \/ \E r \in Revisions, g \in TimeoutArgs : NewLLMOperations(r, 3, g)
    \/ \E k \in OpKinds : CallGetSettings(k)

SpecSettings ==
    InitCommands /\ [][NextSettings]_vars

(* ------------------------------------------------------------------ *)
(* Loading: Creator.load_from_dict (creator.py), load_config (agent.py) *)
(* and the load classmethods of the two operations.py                   *)
(* ------------------------------------------------------------------ *)

\* Creator.__init__
Creator(session_id, isLive) ==
    [session_id |-> session_id, live |-> isLive, operations |-> << >>]

\* Creator.to_dict
CreatorToDict(creator) ==
    [session_id |-> creator.session_id,
     operations |-> [i \in 1..Len(creator.operations) |-> ToDictOf(creator.operations[i])]]

\* a call f(**kwargs): the keywords must be parameters of f, and every
\* parameter without a default must be given, or the call raises TypeError
CallAccepts(kwargs, parameters, required) ==
    (DOMAIN kwargs) \subseteq parameters /\ required \subseteq (DOMAIN kwargs)

\* the timeout keyword of a settings dict, if the dict has one
TimeoutKeyword(settings) ==
    IF "timeout" \in DOMAIN settings THEN Given(Some(settings.timeout)) ELSE Omitted

\* the command classes of config/command.py name the key snap_shot_name
SnapshotKey(revision) ==
    IF revision = "config" THEN "snap_shot_name" ELSE "snapshot_name"

\* the variants whose constructor goes through BrowserFile
FileVariants ==
    {"full_page_screenshot", "element_screenshot", "collect_nodes", "save_html"}

\* V.init_from_dict(d) with the command classes the revision imports
InitFromDictIn(revision, variant, d) ==
    IF revision = "config" /\ variant \in FileVariants
    THEN LET key == SnapshotKey(revision)
             own == CASE variant = "full_page_screenshot" -> {"quality", "name"}
                      [] variant = "element_screenshot" -> {"scale", "selector", "name"}
                      [] variant = "collect_nodes" -> {"selector", "wait_ready"}
                      [] variant = "save_html" -> {}
         IN  IF HasKeys(d, "params", own \cup {key})
             THEN Returned(BrowserCommand(variant,
                              [k \in own \cup {key} |-> d.params[k]]))
             ELSE Raised("KeyError")
    ELSE InitFromDict(variant, d, 0)

\* the command names BrowserOperations.load knows
BrowserVariants ==
    {"open_web_page", "full_page_screenshot", "element_screenshot", "collect_nodes",
     "save_html", "sleep", "click"}

\* the message types LLMOperations.load knows
LLMVariants ==
    {"standard", "multimodal", "assistant", "tool"}

RECURSIVE LoadCommands(_, _, _, _)
\* the loop of BrowserOperations.load / LLMOperations.load: the tag is read
\* first, a known tag goes to init_from_dict and append, an unknown one raises
\* Exception, whose message reads command["command_name"]
LoadCommands(revision, op, tag, entries) ==
    IF entries = << >>
    THEN Returned(op)
    ELSE LET entry == Head(entries)
             known == IF tag = "command_name" THEN BrowserVariants ELSE LLMVariants
         IN  IF tag \notin DOMAIN entry
             THEN Raised("KeyError")
             ELSE IF entry[tag] \notin known
             THEN IF "command_name" \in DOMAIN entry
                  THEN Raised("Exception")
                  ELSE Raised("KeyError")
             ELSE LET c == InitFromDictIn(revision, entry[tag], entry)
                  IN  IF c.raised # "none"
                      THEN Raised(c.raised)
                      ELSE LET a == OperationAppend(op, c.value[1])
                           IN  IF a.raised # "none"
                               THEN Raised("Exception")
                               ELSE LoadCommands(revision, [op EXCEPT !.commands = a.commands],
                                                 tag, Tail(entries))

\* BrowserOperations.load (agent/config/operations.py, config/operations.py)
BrowserOperationsLoad(revision, opt) ==
    IF "settings" \notin DOMAIN opt
    THEN Raised("KeyError")
    ELSE IF ~CallAccepts(opt.settings, {"headless", "timeout"}, {})
    THEN Raised("TypeError")
    ELSE LET r == BrowserOperationsInit(revision,
                      IF "headless" \in DOMAIN opt.settings THEN opt.settings.headless
                                                            ELSE FALSE,
                      TimeoutKeyword(opt.settings))
         IN  IF r.raised # "none"
             THEN r
             ELSE IF "command_list" \notin DOMAIN opt
             THEN Raised("KeyError")
             ELSE LoadCommands(revision, r.value[1], "command_name", opt.command_list)

\* LLMOperations.load (agent/config/operations.py, config/operations.py)
LLMOperationsLoad(revision, opt) ==
    IF "settings" \notin DOMAIN opt
    THEN Raised("KeyError")
    ELSE IF ~CallAccepts(opt.settings,
                         {"try_limit", "timeout", "max_tokens", "llm_settings", "workflow_type"},
                         {"try_limit", "timeout", "max_tokens", "llm_settings", "workflow_type"})
    THEN Raised("TypeError")
    ELSE LET r == LLMOperationsInit(revision, opt.settings.try_limit,
                                    Given(Some(opt.settings.timeout)),
                                    opt.settings.max_tokens, opt.settings.llm_settings,
                                    opt.settings.workflow_type)
         IN  IF r.raised # "none"
             THEN r
             ELSE IF "command_list" \notin DOMAIN opt
             THEN Raised("KeyError")
             ELSE LoadCommands(revision, r.value[1], "message_type", opt.command_list)

RECURSIVE LoadConfigLoop(_, _, _)
\* load_config (agent.py), the loop: browser operations into one list, llm
\* operations into another, Exception for every other type
LoadConfigLoop(operations, browser_list, llm_list) ==
    IF operations = << >>
    THEN Returned(browser_list \o llm_list)
    ELSE LET opt == Head(operations)
         IN  IF "type" \notin DOMAIN opt
             THEN Raised("KeyError")
             ELSE IF opt.type = "browser"
             THEN LET r == BrowserOperationsLoad("config", opt)
                  IN  IF r.raised # "none"
                      THEN Raised(r.raised)
                      ELSE LoadConfigLoop(Tail(operations),
                                          Append(browser_list, r.value[1]), llm_list)
             ELSE IF opt.type = "llm"
             THEN LET r == LLMOperationsLoad("config", opt)
                  IN  IF r.raised # "none"
                      THEN Raised(r.raised)
                      ELSE LoadConfigLoop(Tail(operations), browser_list,
                                          Append(llm_list, r.value[1]))
             ELSE Raised("Exception")

\* load_config (agent.py) on the parsed document
LoadConfig(data) ==
    IF "operations" \notin DOMAIN data
    THEN Raised("KeyError")
    ELSE LoadConfigLoop(data.operations, << >>, << >>)

\* Operation._process of a batch operation: the command is appended
ProcessBatch(op, command) ==
    LET a == OperationAppend(op, command)
    IN  IF a.raised # "none"
        THEN Raised(a.raised)
        ELSE Returned([op EXCEPT !.commands = a.commands])

\* the parameters of _BrowserOperations.add_iterate_html, and those without a default
IterateParameters ==
    {"iterate_limit", "save_html", "save_node", "save_full_page_image", "pause_time",
     "snapshot_name", "image_quality"}

IterateRequired ==
    {"iterate_limit", "save_html", "save_node", "save_full_page_image"}

\* one arm of the match in Creator.load_browser_operations: the add_* call of
\* the command name; collect_nodes passes six arguments to the five parameters
\* of add_collect_nodes, iterate_html passes the params as keywords to
\* add_iterate_html, which reads super()._session_name
CreatorLoadBrowserCommand(op, entry) ==
    IF "command_name" \notin DOMAIN entry
    THEN Raised("KeyError")
    ELSE LET name == entry.command_name
         IN  CASE name = "open_web_page" ->
                    IF HasKeys(entry, "params", {"url"})
                    THEN ProcessBatch(op, Navigate(entry.params.url))
                    ELSE Raised("KeyError")
               [] name = "full_page_screenshot" ->
                    IF HasKeys(entry, "params", {"quality", "name", "snapshot_name"})
                    THEN ProcessBatch(op, FullPageScreenshot(entry.params.quality,
                                              entry.params.name, entry.params.snapshot_name))
                    ELSE Raised("KeyError")
               [] name = "element_screenshot" ->
                    IF HasKeys(entry, "params", {"scale", "selector", "name", "snapshot_name"})
                    THEN ProcessBatch(op, ElementScreenShot(entry.params.scale,
                                              entry.params.selector, entry.params.name,
                                              entry.params.snapshot_name))
                    ELSE Raised("KeyError")
               [] name = "collect_nodes" ->
                    IF HasKeys(entry, "params", {"selector", "snapshot_name", "wait_ready",
                                                 "recurse", "prepopulate", "get_styles"})
                    THEN Raised("TypeError")
                    ELSE Raised("KeyError")
               [] name = "save_html" ->
                    IF HasKeys(entry, "params", {"snapshot_name"})
                    THEN ProcessBatch(op, SaveHtml(entry.params.snapshot_name))
                    ELSE Raised("KeyError")
               [] name = "sleep" ->
                    IF HasKeys(entry, "params", {"seconds"})
                    THEN ProcessBatch(op, Sleep(entry.params.seconds))
                    ELSE Raised("KeyError")
               [] name = "click" ->
                    IF HasKeys(entry, "params", {"selector", "query_type"})
                    THEN ProcessBatch(op, Click(entry.params.selector,
                                                entry.params.query_type))
                    ELSE Raised("KeyError")
               [] name = "iterate_html" ->
                    IF "params" \notin DOMAIN entry
                    THEN Raised("KeyError")
                    ELSE IF CallAccepts(entry.params, IterateParameters, IterateRequired)
                    THEN Raised("AttributeError")
                    ELSE Raised("TypeError")
               [] OTHER ->
                    Raised("TypeError")

\* one arm of the match in Creator.load_llm_operations; the message of the
\* TypeError of the default arm reads command["command_name"]
CreatorLoadLlmCommand(op, entry) ==
    IF "message_type" \notin DOMAIN entry
    THEN Raised("KeyError")
    ELSE LET name == entry.message_type
         IN  CASE name \in {"standard", "assistant"} ->
                    IF HasKeys(entry, "message", {"role", "content"})
                    THEN ProcessBatch(op, IF name = "standard"
                                          THEN Standard(entry.message.role, entry.message.content)
                                          ELSE Assistant(entry.message.role, entry.message.content))
                    ELSE Raised("KeyError")
               [] name = "multimodal" ->
                    IF HasKeys(entry, "message", {"role", "content"})
                    THEN LET m == MultimodalLoadContent(Multimodal(entry.message.role),
                                                        entry.message.content)
                         IN  IF m.raised # "none"
                             THEN Raised(m.raised)
                             ELSE ProcessBatch(op, m.value[1])
                    ELSE Raised("KeyError")
               [] OTHER ->
                    IF "command_name" \in DOMAIN entry
                    THEN Raised("TypeError")
                    ELSE Raised("KeyError")

RECURSIVE CreatorLoadCommands(_, _, _)
\* the command loop of Creator.load_browser_operations / load_llm_operations
CreatorLoadCommands(op, kind, entries) ==
    IF entries = << >>
    THEN Returned(op)
    ELSE LET r == IF kind = "browser"
                  THEN CreatorLoadBrowserCommand(op, Head(entries))
                  ELSE CreatorLoadLlmCommand(op, Head(entries))
         IN  IF r.raised # "none"
             THEN r
             ELSE CreatorLoadCommands(r.value[1], kind, Tail(entries))

\* Creator.load_browser_operations: _BrowserOperations(session_id, **settings),
\* then the commands; the result is the operation to append
CreatorLoadBrowserOperations(creator, opt) ==
    IF "settings" \notin DOMAIN opt
    THEN Raised("KeyError")
    ELSE IF ~CallAccepts(opt.settings, {"headless", "timeout", "live"}, {})
    THEN Raised("TypeError")
    ELSE LET r == BrowserOperationsInit("operation",
                      IF "headless" \in DOMAIN opt.settings THEN opt.settings.headless
                                                            ELSE FALSE,
                      TimeoutKeyword(opt.settings))
         IN  IF "command_list" \notin DOMAIN opt
             THEN Raised("KeyError")
             ELSE CreatorLoadCommands(r.value[1], "browser", opt.command_list)

\* Creator.load_llm_operations: the five settings are read (KeyError when one
\* is missing), then _LLMOperations is called with the keyword workflow_type,
\* which is not one of its parameters
CreatorLoadLlmOperations(creator, opt) ==
    IF "settings" \notin DOMAIN opt
    THEN Raised("KeyError")
    ELSE IF ~({"try_limit", "timeout", "max_tokens", "llm_settings"} \subseteq DOMAIN opt.settings
              /\ HasKeys(opt.settings, "workflow", {"workflow_type"}))
    THEN Raised("KeyError")
    ELSE IF ~CallAccepts([k \in {"try_limit", "timeout", "max_tokens", "llm_settings",
                                  "workflow_type", "session_name"} |-> TRUE],
                         {"try_limit", "timeout", "max_tokens", "llm_settings",
                          "session_name", "live"},
                         {"try_limit", "timeout", "max_tokens", "llm_settings", "session_name"})
    THEN Raised("TypeError")
    ELSE LET r == LLMOperationsInit("operation", opt.settings.try_limit,
                                    Given(Some(opt.settings.timeout)),
                                    opt.settings.max_tokens, opt.settings.llm_settings,
                                    opt.settings.workflow.workflow_type)
         IN  IF "command_list" \notin DOMAIN opt
             THEN Raised("KeyError")
             ELSE CreatorLoadCommands(r.value[1], "llm", opt.command_list)

RECURSIVE CreatorLoadLoop(_, _)
\* Creator.load_from_dict, the loop: each operation by its type tag
CreatorLoadLoop(creator, operations) ==
    IF operations = << >>
    THEN Returned(creator)
    ELSE LET opt == Head(operations)
         IN  IF "type" \notin DOMAIN opt
             THEN Raised("KeyError")
             ELSE IF opt.type \in {"browser", "llm"}
             THEN LET r == IF opt.type = "browser"
                           THEN CreatorLoadBrowserOperations(creator, opt)
                           ELSE CreatorLoadLlmOperations(creator, opt)
                  IN  IF r.raised # "none"
                      THEN Raised(r.raised)
                      ELSE CreatorLoadLoop([creator EXCEPT !.operations = Append(@, r.value[1])],
                                           Tail(operations))
             ELSE Raised("TypeError")

\* Creator.load_from_dict
LoadFromDict(data) ==
    IF ~({"operations", "session_id"} \subseteq DOMAIN data)
    THEN Raised("KeyError")
    ELSE CreatorLoadLoop(Creator(data.session_id, FALSE), data.operations)

\* the session ids of the model
SessionIds ==
    {"s1"}

\* the timeouts the operations of a Creator are given
CreatorTimeouts ==
    {0, 30}

\* Creator(session_id)
NewCreator(session_id) ==
    /\ session = None
    /\ session' = Some(Creator(session_id, FALSE))
    /\ outcome' = Outcome(0, "creator", "returned", None)
    /\ UNCHANGED << live, fsVars, pc, call, nextUid, calls, published, observed,
                    operation, appended, ends >>

\* creator.new_browser_operation(headless, timeout)
CreatorNewBrowserOperation(headless, given) ==
    /\ session # None
    /\ Len(session[1].operations) < MaxOps
    /\ LET r == BrowserOperationsInit("operation", headless, given)
           brow_op == [r.value[1] EXCEPT !.live = session[1].live]
       IN  session' = Some([session[1] EXCEPT !.operations = Append(@, brow_op)])
    /\ outcome' = Outcome(0, "new_browser_operation", "returned", None)
    /\ UNCHANGED << live, fsVars, pc, call, nextUid, calls, published, observed,
                    operation, appended, ends >>

\* creator.new_llm_operation(try_limit, timeout, max_tokens, llm_settings,
\* workflow_type): _LLMOperations gets workflow_type as its session_name and the
\* session id, a non-empty string, as its live
CreatorNewLlmOperation(try_limit, timeout, max_tokens, llm_settings, workflow_type) ==
    /\ session # None
    /\ Len(session[1].operations) < MaxOps
    /\ LET r == LLMOperationsInit("operation", try_limit, Given(Some(timeout)), max_tokens,
                                  llm_settings, workflow_type)
           llm_op == [r.value[1] EXCEPT !.live = TRUE]
       IN  session' = Some([session[1] EXCEPT !.operations = Append(@, llm_op)])
    /\ outcome' = Outcome(0, "new_llm_operation", "returned", None)
    /\ UNCHANGED << live, fsVars, pc, call, nextUid, calls, published, observed,
                    operation, appended, ends >>

\* the number of commands the operations of a creator hold
RECURSIVE CommandCount(_)
CommandCount(operations) ==
    IF operations = << >>
    THEN 0
    ELSE Len(Head(operations).commands) + CommandCount(Tail(operations))

\* an add_* call on the i-th operation of the creator: add_navigate_command and
\* add_sleep go through _process, which appends in a batch operation;
\* add_standard_command and add_assistant_command append
CreatorAddCommand(i, command) ==
    /\ session # None
    /\ i \in 1..Len(session[1].operations)
    /\ command.command_type = session[1].operations[i].op_type
    /\ CommandCount(session[1].operations) < MaxAppends
    /\ LET op == session[1].operations[i]
           r == IF op.op_type = "browser"
                THEN ProcessBatch(op, command)
                ELSE LET a == OperationAppend(op, command)
                     IN  Returned([op EXCEPT !.commands = a.commands])
       IN  session' = Some([session[1] EXCEPT !.operations[i] = r.value[1]])
    /\ outcome' = Outcome(0, "add", "returned", None)
    /\ UNCHANGED << live, fsVars, pc, call, nextUid, calls, published, observed,
                    operation, appended, ends >>

\* Creator.load_from_dict(creator.to_dict()).to_dict()
CreatorRoundTrip ==
    /\ session # None
    /\ LET data == CreatorToDict(session[1])
           r == LoadFromDict(data)
       IN  outcome' = Outcome(0, "load_round_trip",
                              IF r.raised = "none" THEN "returned" ELSE r.raised,
                              Some([input |-> data,
                                    output |-> IF r.raised = "none"
                                               THEN Some(CreatorToDict(r.value[1]))
                                               ELSE None]))
    /\ UNCHANGED << live, fsVars, pc, call, nextUid, calls, published, observed,
                    operation, appended, ends, session >>

NextCreator ==
    \/ \E s \in SessionIds : NewCreator(s)
    \/ \E h \in BOOLEAN, g \in {Omitted, Given(Some(30))} : CreatorNewBrowserOperation(h, g)
    \/ \E t \in CreatorTimeouts :
          CreatorNewLlmOperation(3, t, 300, ProviderSettings, "chat_completion")
    \/ \E i \in 1..MaxOps, c \in BrowserCommands \cup LLMCommands : CreatorAddCommand(i, c)
    \/ CreatorRoundTrip

SpecCreator ==
    InitCommands /\ [][NextCreator]_vars

\* the entries of the command lists handed to the loaders: a known command, an
\* unknown name or type, and an entry without the tag the loader reads
BrowserEntries ==
    {[command_name |-> "open_web_page", params |-> [url |-> "https://example.com"]],
     [command_name |-> "invalid_command"],
     [params |-> [url |-> "https://example.com"]]}

LLMEntries ==
    {[message_type |-> "standard", message |-> [role |-> "user", content |-> "hi"]],
     [message_type |-> "invalid_message", message |-> [role |-> "user", content |-> "hi"]],
     [command_name |-> "invalid_command"]}

\* the settings of the operation dicts: as to_dict() writes them, as the tests
\* write them, and as the keywords of LLMOperations.__init__
BrowserSettings ==
    {[headless |-> FALSE], [headless |-> TRUE, timeout |-> 30]}

LLMSettingsDicts ==
    {[timeout |-> 30, try_limit |-> 3, max_tokens |-> 300, llm_settings |-> ProviderSettings],
     [timeout |-> 30, try_limit |-> 3, max_tokens |-> 300, llm_settings |-> ProviderSettings,
      workflow |-> [workflow_type |-> "chat_completion"]],
     [timeout |-> 30, try_limit |-> 3, max_tokens |-> 300, llm_settings |-> ProviderSettings,
      workflow_type |-> "chat_completion"]}

\* the operation dicts handed to the operation loaders
OperationDicts(kind) ==
    IF kind = "browser"
    THEN {[type |-> "browser", settings |-> s, command_list |-> l] :
             s \in BrowserSettings, l \in SeqsUpTo(BrowserEntries, MaxEntries)}
    ELSE {[type |-> "llm", settings |-> s, command_list |-> l] :
             s \in LLMSettingsDicts, l \in SeqsUpTo(LLMEntries, MaxEntries)}

\* the operations of the documents handed to load_from_dict and load_config,
\* one of them of a type that is neither browser nor llm
DocumentOperations ==
    {[type |-> "browser", settings |-> [headless |-> TRUE, timeout |-> 30],
      command_list |-> l] :
        l \in {<< >>, << [command_name |-> "open_web_page",
                          params |-> [url |-> "https://example.com"]] >>}}
    \cup {[type |-> "llm", settings |-> s, command_list |-> << >>] : s \in LLMSettingsDicts}
    \cup {[type |-> "video", settings |-> EmptyDict, command_list |-> << >>]}

Documents ==
    {[session_id |-> "s1", operations |-> o] : o \in SeqsUpTo(DocumentOperations, MaxOps)}

\* Creator.load_from_dict(data) or load_config on a file holding data
CallLoad(loader, data) ==
    /\ LET r == IF loader = "load_from_dict" THEN LoadFromDict(data) ELSE LoadConfig(data)
       IN  outcome' = Outcome(0, loader,
                              IF r.raised = "none" THEN "returned" ELSE r.raised,
                              Some([data |-> data, returned |-> r.value]))
    /\ UNCHANGED << live, fsVars, pc, call, nextUid, calls, published, observed,
                    operation, appended, ends, session >>

\* the loaders of one operation
OperationLoaders ==
    {"Creator", "operations", "config"}

\* BrowserOperations.load(opt) / LLMOperations.load(opt) of a revision, or
\* Creator("s1").load_browser_operations(opt) / load_llm_operations(opt)
CallOperationLoad(loader, opt) ==
    /\ LET r == IF loader = "Creator"
                THEN IF opt.type = "browser"
                     THEN CreatorLoadBrowserOperations(Creator("s1", FALSE), opt)
                     ELSE CreatorLoadLlmOperations(Creator("s1", FALSE), opt)
                ELSE IF opt.type = "browser"
                     THEN BrowserOperationsLoad(loader, opt)
                     ELSE LLMOperationsLoad(loader, opt)
       IN  outcome' = Outcome(0, "load_operation",
                              IF r.raised = "none" THEN "returned" ELSE r.raised,
                              Some([loader |-> loader, data |-> opt, returned |-> r.value]))
    /\ UNCHANGED << live, fsVars, pc, call, nextUid, calls, published, observed,
                    operation, appended, ends, session >>

NextLoad ==
    \/ \E l \in {"load_from_dict", "load_config"}, d \in Documents : CallLoad(l, d)
    \/ \E l \in OperationLoaders, k \in OpKinds :
          \E o \in OperationDicts(k) : CallOperationLoad(l, o)

SpecLoad ==
    InitCommands /\ [][NextLoad]_vars

(* ------------------------------------------------------------------ *)
(* Properties                                                           *)
(* ------------------------------------------------------------------ *)

\* the response markers of one command
ErrFiles(uid) ==
    {r \in responses : r.uid = uid /\ r.file = "err.txt"}

SuccessFiles(uid) ==
    {r \in responses : r.uid = uid /\ r.file = "success.txt"}

\* the exit-command files in commands/
ExitFiles ==
    {n \in DOMAIN commandFiles : n.ext = "exit.json"}

\* C1 (atomic publish): every file of commands/ whose name ends in .json, and
\* every file the agent has read, holds its complete body; and a name ending in
\* .json only ever appears by the rename of a completely written temporary file
\* (<uuid>.json.tmp, <uuid>exit.json.tmp), which thereby disappears.
C1_AtomicPublish ==
    /\ [](/\ \A n \in JsonNames(commandFiles) : commandFiles[n].complete
          /\ \A r \in agentRead : r.content.complete)
    /\ [][\A n \in JsonNames(commandFiles') \ JsonNames(commandFiles) :
            /\ pc = "rename"
            /\ \E t \in DOMAIN commandFiles :
                /\ t.ext \in {".json.tmp", "exit.json.tmp"}
                /\ t \notin DOMAIN commandFiles'
                /\ commandFiles[t].complete
                /\ commandFiles'[n] = commandFiles[t]]_vars

\* the agent has read the command file of the call that is now polling
C1_Witness ==
    /\ pc = "poll"
    /\ \E r \in agentRead :
        r.name = FinalPath(call) /\ r.content.complete /\ r.content.body = call.body

\* C2 (fail fast after exit), as claimed: once exit.txt exists, a command call
\* that begins raises ConnectionError, no new name ending in .json appears in
\* commands/, and the client is not left polling.
C2_FailFastAfterExit ==
    [][exitTxt =>
        /\ JsonNames(commandFiles') \subseteq JsonNames(commandFiles)
        /\ pc' # "poll"
        /\ (pc = "idle" /\ calls' = calls + 1 /\ nextUid' = nextUid + 1) =>
              (outcome'.id = calls' /\ outcome'.result = "ConnectionError")]_vars

\* C3 (exit idempotence), as claimed: when end_live_session() has been called
\* twice on a started live session, the first call writing the exit command,
\* there is exactly one exit-command file in commands/ and the second call
\* returned without raising.
C3_ExitIdempotence ==
    (Len(ends) = 2 /\ ends[1] = "written") =>
        (Cardinality(ExitFiles) = 1 /\ ends[2] \in {"written", "no-op"})

C5_DeliveryOrder ==
    \A i, j \in 1..Len(published) :
        i < j => /\ published[i].call < published[j].call
                 /\ published[i].call \in published[j].prior
                 /\ published[i].uid # published[j].uid

\* two command files have been published
C5_Witness ==
    /\ Len(published) >= 2
    /\ \A i \in 1..Len(published) : FileName(published[i].uid, ".json") \in DOMAIN commandFiles

\* C6 (session state violations): a call that queries exited (the property
\* itself, end_live_session(), or add_* / execute() of a live operation) on a
\* session that is not live or whose commands/ does not exist ends at once with
\* InvalidSessionError, writes no file and leaves the operations as they were.
C6_SessionStateViolations ==
    [][(pc = "idle" /\ calls' = calls + 1) =>
        LET kind == IF pc' = "open" THEN call'.kind ELSE outcome'.kind
            queries == \/ kind \in {"exited", "end"}
                       \/ kind \in {"add", "execute"} /\ live
        IN  (queries /\ (~live \/ ~commandsDir)) =>
                /\ pc' = "idle"
                /\ outcome'.id = calls'
                /\ outcome'.result = "InvalidSessionError"
                /\ commandFiles' = commandFiles
                /\ operation' = operation]_vars

\* a live add_* was refused because the session had not started
C6_Witness ==
    /\ live
    /\ outcome.kind = "add"
    /\ outcome.result = "InvalidSessionError"
    /\ commandFiles = EmptyDict

\* C7 (type guard): an append of a command of another family raises TypeError
\* and changes no operation; an append of a command of the operation's family
\* puts it at the end of that operation's commands and changes nothing else.
C7_TypeGuard ==
    [][(calls' = calls + 1) =>
        LET k == outcome'.value[1].op
            c == outcome'.value[1].command
        IN  /\ outcome'.kind = "append"
            /\ c.command_type # k =>
                  (outcome'.result = "TypeError" /\ operation' = operation)
            /\ c.command_type = k =>
                  /\ outcome'.result = "returned"
                  /\ operation'[k].commands = Append(operation[k].commands, c)
                  /\ operation' = [operation EXCEPT ![k].commands = operation'[k].commands]]_vars

\* an append was refused on an operation that already holds a command
C7_Witness ==
    /\ outcome.kind = "append"
    /\ outcome.result = "TypeError"
    /\ Len(operation[outcome.value[1].op].commands) > 0

\* C8 (operation serialization): to_dict() has exactly the keys type, settings
\* and command_list, and command_list is the to_dict() of the commands appended
\* so far, one per successful append, in the order of the appends.
C8_OperationSerialization ==
    outcome.kind = "to_dict" =>
        LET k == outcome.value[1].op
            d == outcome.value[1].dict
        IN  /\ DOMAIN d = {"type", "settings", "command_list"}
            /\ d.type = k
            /\ DOMAIN d.command_list = 1..Len(appended[k])
            /\ \A i \in 1..Len(appended[k]) :
                  d.command_list[i] = CommandToDict(appended[k][i])

\* to_dict() of an operation that was given two different commands
C8_Witness ==
    /\ outcome.kind = "to_dict"
    /\ Len(appended[outcome.value[1].op]) >= 2
    /\ appended[outcome.value[1].op][1] # appended[outcome.value[1].op][2]

\* a step of an execute() call
ExecuteStep ==
    \/ pc \in {"open", "dump", "rename", "poll", "load"} /\ call.kind = "execute"
    \/ /\ pc = "idle"
       /\ calls' = calls + 1
       /\ \/ pc' = "open" /\ call'.kind = "execute"
          \/ outcome'.id = calls' /\ outcome'.kind = "execute"

\* C9 (execute() history), as claimed: when execute() has returned its reply,
\* the reply is the last element of the operation's command list and the list
\* is one longer than before the call.
C9_ReplyAppended ==
    (outcome.kind = "execute" /\ outcome.result = "returned") =>
        /\ Len(operation.llm.commands) = call.lenBefore + 1
        /\ operation.llm.commands[Len(operation.llm.commands)] = outcome.value[1]

\* C9, amended: no step of execute(), successful or failed, changes the
\* operation's command list; a successful execute() returns an Assistant
\* command, and it is add_response() that puts the reply at the end of the list,
\* making it one longer.
C9_ExecuteHistory ==
    [][/\ ExecuteStep => operation' = operation
       /\ (pc = "load" /\ pc' = "idle" /\ outcome'.result = "returned") =>
             /\ outcome'.value[1].command_type = "llm"
             /\ outcome'.value[1].command_name = "assistant"
       /\ (pc = "idle" /\ calls' = calls + 1 /\ outcome'.id = calls'
              /\ outcome'.kind = "response") =>
             operation'.llm.commands = Append(operation.llm.commands, outcome.value[1])]_vars

\* the reply of a successful execute() was added with add_response()
C9_Witness ==
    /\ outcome.kind = "response"
    /\ call.kind = "execute"
    /\ Len(operation.llm.commands) = call.lenBefore + 1
    /\ operation.llm.commands[Len(operation.llm.commands)].command_name = "assistant"

\* C10 (lifetime check), as claimed: Session(...) succeeds exactly when
\* 0 < command_lifetime <= session_lifetime and raises ValueError otherwise.
C10_LifetimeCheck ==
    outcome.kind = "session" =>
        LET a == outcome.value[1]
            ok == 0 < a.command_lifetime /\ a.command_lifetime <= a.session_lifetime
        IN  /\ ok => (outcome.result = "returned" /\ session # None)
            /\ ~ok => (outcome.result = "ValueError" /\ session = None)

\* C11 (command round trip), as claimed: for a well-formed wire dict d of a
\* variant, init_from_dict(d) returns and its to_dict() is d again, a browser
\* dict with the keys command_name and params, an llm dict with the keys
\* message_type and message.
C11_CommandRoundTrip ==
    (outcome.kind = "round_trip" /\ outcome.value[1].input \in WireDicts) =>
        /\ outcome.result = "returned"
        /\ outcome.value[1].output # None
        /\ outcome.value[1].output[1] = outcome.value[1].input
        /\ DOMAIN outcome.value[1].output[1] \in
              {{"command_name", "params"}, {"message_type", "message"}}

\* C18 (multimodal content): add_content with the type text or image_url puts
\* exactly one item at the end of the content, which to_dict() then lists in
\* call order (with b64 the call may instead fail on a missing file and add
\* nothing); any other type raises ValueError and leaves the content as it was.
C18_MultimodalContent ==
    [][(outcome'.kind = "add_content" /\ call.kind = "multimodal") =>
        LET a == outcome'.value[1]
            before == call.command[1].params.content
            after == call'.command[1].params.content
            item == IF a.ctype = "text"
                    THEN [type |-> "text", text |-> a.content]
                    ELSE [type |-> "image_url", image_url |-> [url |-> a.content]]
        IN  /\ (a.ctype \in {"text", "image_url"} /\ ~a.b64) =>
                  /\ outcome'.result = "returned"
                  /\ after = Append(before, item)
            /\ (a.ctype \in {"text", "image_url"} /\ a.b64) =>
                  \/ outcome'.result = "returned" /\ Len(after) = Len(before) + 1
                        /\ SubSeq(after, 1, Len(before)) = before
                        /\ after[Len(after)].type = a.ctype
                  \/ outcome'.result = "FileNotFoundError" /\ after = before
            /\ a.ctype \notin {"text", "image_url"} =>
                  (outcome'.result = "ValueError" /\ after = before)
            /\ CommandToDict(call'.command[1]).message.content = after]_vars

\* an unknown type was refused on a command that holds a text and then an image
C18_Witness ==
    /\ outcome.kind = "add_content"
    /\ outcome.result = "ValueError"
    /\ call.kind = "multimodal"
    /\ Len(call.command[1].params.content) = 2
    /\ call.command[1].params.content[1].type = "text"
    /\ call.command[1].params.content[2].type = "image_url"

\* C15 (browser settings), as claimed: get_settings() of a browser operation
\* has the key headless with the value given at construction, and with no
\* timeout set it is exactly {headless: value}.
C15_BrowserSettings ==
    (outcome.kind = "get_settings" /\ outcome.value[1].op = "browser") =>
        LET settings == outcome.value[1].settings
            op == operation.browser
        IN  /\ "headless" \in DOMAIN settings
            /\ settings.headless = op.headless
            /\ op.timeout = None => settings = [headless |-> op.headless]

\* C16 (timeout domain), as claimed: a constructor call with a timeout outside
\* 0..32767 raises, and one with None or a timeout in 0..32767 returns.
C16_TimeoutDomain ==
    (outcome.kind = "construct" /\ outcome.value[1].given # Omitted) =>
        LET timeout == outcome.value[1].given[1]
        IN  IF timeout = None \/ (0 <= timeout[1] /\ timeout[1] <= 32767)
            THEN outcome.result = "returned"
            ELSE outcome.result # "returned"

\* C17 (timeout in settings), as claimed: get_settings() has the key timeout,
\* holding the configured value, exactly when the timeout of the operation is
\* not None, 0 included.
C17_TimeoutInSettings ==
    outcome.kind = "get_settings" =>
        LET settings == outcome.value[1].settings
            op == operation[outcome.value[1].op]
        IN  /\ ("timeout" \in DOMAIN settings) <=> (op.timeout # None)
            /\ op.timeout # None => settings.timeout = op.timeout[1]

\* C12 (session round trip), as claimed: for a Creator built by new_*_operation
\* and add_* calls, load_from_dict(to_dict()) returns a Creator whose to_dict()
\* is the same document: session id, operations, settings and command lists.
C12_SessionRoundTrip ==
    outcome.kind = "load_round_trip" =>
        /\ outcome.result = "returned"
        /\ outcome.value[1].output = Some(outcome.value[1].input)

\* an operation of the document has a type that is neither browser nor llm
HasUnknownOperation(data) ==
    \E i \in 1..Len(data.operations) : data.operations[i].type \notin {"browser", "llm"}

\* C13 (closed operation set), as claimed: load_from_dict and load_config raise
\* TypeError for a document with an operation of an unknown type, wherever it
\* sits, and return nothing.
C13_ClosedOperationSet ==
    (outcome.kind \in {"load_from_dict", "load_config"}
        /\ HasUnknownOperation(outcome.value[1].data)) =>
        /\ outcome.result = "TypeError"
        /\ outcome.value[1].returned = None

\* an entry of the command list is not a known variant of the kind of the operation
HasUnknownCommand(opt) ==
    \E i \in 1..Len(opt.command_list) :
        LET entry == opt.command_list[i]
        IN  IF opt.type = "browser"
            THEN "command_name" \notin DOMAIN entry
                    \/ entry.command_name \notin BrowserVariants \cup {"iterate_html"}
            ELSE "message_type" \notin DOMAIN entry
                    \/ entry.message_type \notin LLMVariants

\* C14 (closed command set), as claimed: loading an operation whose command
\* list has an unknown entry raises TypeError, in the browser loader and in the
\* llm loader.
C14_ClosedCommandSet ==
    (outcome.kind = "load_operation" /\ HasUnknownCommand(outcome.value[1].data)) =>
        outcome.result = "TypeError"

(* ------------------------------------------------------------------ *)
(* Calls that reach the external agent (conduit.py)                     *)
(* ------------------------------------------------------------------ *)

\* the session names the agent has saved, as the characters it prints
SavedSessions ==
    {<< "a" >>, << "b" >>, << "c", "1" >>}

RECURSIVE Join(_)
\* ", ".join(names), character by character
Join(names) ==
    IF names = << >>
    THEN << >>
    ELSE IF Len(names) = 1
         THEN names[1]
         ELSE names[1] \o << ",", " " >> \o Join(Tail(names))

\* what `agent session ls` prints for a list of saved sessions
FormatSessions(names) ==
    << "[" >> \o Join(names) \o << "]", "\n" >>

\* str.replace(ch, "")
Replace(s, ch) ==
    SelectSeq(s, LAMBDA x : x # ch)

RECURSIVE Split(_, _)
\* str.split(", "): field holds the characters of the element being read
Split(s, field) ==
    IF s = << >>
    THEN << field >>
    ELSE IF Len(s) >= 2 /\ s[1] = "," /\ s[2] = " "
         THEN << field >> \o Split(SubSeq(s, 3, Len(s)), << >>)
         ELSE Split(Tail(s), Append(field, s[1]))

\* the parse of list_all_sessions
ParseSessions(response) ==
    LET sess_list == Split(Replace(Replace(Replace(response, "["), "]"), "\n"), << >>)
    IN  IF sess_list[1] = << >> THEN << >> ELSE sess_list

\* the texts a subprocess of the agent leaves on stdout
Stdouts ==
    {<< >>} \cup {FormatSessions(names) : names \in SeqsUpTo(SavedSessions, MaxSessions)}

\* a finished subprocess of the agent: subprocess.CompletedProcess
CompletedProcesses ==
    [stdout : Stdouts, stderr : {"", "session not found"}, returncode : {0, 1}]

\* the answers of the hosted agent: requests.Response
HttpResponses ==
    [status_code : {200, 404, 500}, text : {<< "o", "k" >>, << "e", "r", "r" >>}]

\* subprocess.run(..., check=check): a non-zero exit raises when check is set
SubprocessRun(process, check) ==
    IF check /\ process.returncode # 0
    THEN Raised("CalledProcessError")
    ELSE Returned(process)

\* the body of remove_session and of remove_all
RemoveResult(process) ==
    LET rem == SubprocessRun(process, TRUE)
    IN  IF rem.raised # "none"
        THEN rem
        ELSE IF rem.value[1].stderr # ""
             THEN Raised("EnvironmentError")
             ELSE Returned(None)

\* the body of list_all_sessions: stderr is never read
ListAllSessionsResult(process) ==
    LET sess == SubprocessRun(process, TRUE)
    IN  IF sess.raised # "none"
        THEN sess
        ELSE Returned(ParseSessions(sess.value[1].stdout))

\* the body of Conduit.run
ConduitRunResult(process) ==
    LET console_out == SubprocessRun(process, FALSE)
    IN  IF console_out.value[1].stderr # ""
        THEN Raised("EnvironmentError")
        ELSE Returned(console_out.value[1].stdout)

\* the body of WebConduit.run
WebConduitRunResult(response) ==
    IF response.status_code # 200
    THEN Raised("EnvironmentError")
    ELSE Returned(response.text)

\* one call of the conduit module, answered by the agent with `agent`
ConduitCall(name, agent, r) ==
    /\ outcome' = Outcome(0, name, IF r.raised = "none" THEN "returned" ELSE r.raised,
                          Some([agent |-> agent, returned |-> r.value]))
    /\ UNCHANGED << live, fsVars, pc, call, nextUid, calls, published, observed,
                    operation, appended, ends, session >>

\* remove_session(session_id)
RemoveSession(process) ==
    ConduitCall("remove_session", process, RemoveResult(process))

\* remove_all()
RemoveAll(process) ==
    ConduitCall("remove_all", process, RemoveResult(process))

\* list_all_sessions()
ListAllSessions(process) ==
    ConduitCall("list_all_sessions", process, ListAllSessionsResult(process))

\* Conduit(config).run()
ConduitRun(process) ==
    ConduitCall("Conduit.run", process, ConduitRunResult(process))

\* WebConduit(config, dns, port).run()
WebConduitRun(response) ==
    ConduitCall("WebConduit.run", response, WebConduitRunResult(response))

NextConduit ==
    \/ \E p \in CompletedProcesses : RemoveSession(p)
    \/ \E p \in CompletedProcesses : RemoveAll(p)
    \/ \E p \in CompletedProcesses : ListAllSessions(p)
    \/ \E p \in CompletedProcesses : ConduitRun(p)
    \/ \E r \in HttpResponses : WebConduitRun(r)

SpecConduit ==
    InitCommands /\ [][NextConduit]_vars

\* the calls that read the answer of a subprocess
SubprocessCalls ==
    {"remove_session", "remove_all", "list_all_sessions", "Conduit.run"}

\* C19 (agent-reported errors), as claimed: a call that reached the agent
\* returns only when the agent reported no error (stderr empty, HTTP status
\* 200); when the agent reported one the call raises.
C19_AgentErrors ==
    /\ outcome.kind \in SubprocessCalls =>
            (outcome.result = "returned" <=> outcome.value[1].agent.stderr = "")
                \/ (outcome.result = "CalledProcessError"
                        /\ outcome.value[1].agent.returncode # 0)
    /\ outcome.kind = "WebConduit.run" =>
            (outcome.result = "returned" <=> outcome.value[1].agent.status_code = 200)

(* ------------------------------------------------------------------ *)
(* The snapshots of an IterateHtml command (command.py)                 *)
(* ------------------------------------------------------------------ *)

\* str.startswith, on names written as sequences of their parts
StartsWith(x, prefix) ==
    Len(x) >= Len(prefix) /\ SubSeq(x, 1, Len(prefix)) = prefix

\* the directories the agent may have left in ./resources/snapshots: one per
\* snapshot taken, named after the folder prefix of the command that took it
SnapshotDirs ==
    {FolderPrefix(<< "snapshot" >>, u) \o << i >> : u \in 1..2, i \in 0..1}

\* the states of ./resources/snapshots: missing, or a directory whose entries
\* os.listdir returns in an order of its choosing
SnapshotFolders ==
    {[isdir |-> FALSE, dir_list |-> << >>]}
        \cup {[isdir |-> TRUE, dir_list |-> l] :
                l \in {s \in SeqsUpTo(SnapshotDirs, MaxSnapshots) :
                            \A i, j \in 1..Len(s) : s[i] = s[j] => i = j}}

\* IterateHtml._collect_resources
CollectResources(c, fs) ==
    SelectSeq(fs.dir_list, LAMBDA x : StartsWith(x, c.params.snapshot_name))

\* IterateHtml.__len__
IterateHtmlLen(c, fs) ==
    IF ~fs.isdir
    THEN Raised("NotADirectoryError")
    ELSE Returned(Len(CollectResources(c, fs)))

\* list.__getitem__(item) for an integer: a negative item counts from the end
ListGetItem(l, item) ==
    IF item >= Len(l) \/ item < -Len(l)
    THEN Raised("IndexError")
    ELSE Returned(l[IF item >= 0 THEN item + 1 ELSE Len(l) + item + 1])

\* IterateHtml.__getitem__
IterateHtmlGetItem(c, fs, item) ==
    LET n == IterateHtmlLen(c, fs)
    IN  IF n.raised # "none"
        THEN n
        ELSE IF n.value[1] < 0
             THEN Raised("NotADirectoryError")
             ELSE ListGetItem(CollectResources(c, fs), item)

\* IterateHtml(iterate_limit, save_html, save_node, save_full_page_image)
NewIterateHtml(iterate_limit, save_node) ==
    /\ nextUid < 2 * MaxCalls
    /\ call' = [NoCall EXCEPT !.kind = "iterate_html",
                              !.command = Some(IterateHtml(nextUid, iterate_limit, TRUE,
                                                           save_node, TRUE, 5000, 0,
                                                           << "snapshot" >>))]
    /\ nextUid' = nextUid + 1
    /\ outcome' = Outcome(0, "iterate_html", "returned", None)
    /\ UNCHANGED << live, fsVars, pc, calls, published, observed, operation, appended,
                    ends, session >>

\* len(builder), with ./resources/snapshots in the state fs
CallLen(fs) ==
    /\ call.kind = "iterate_html"
    /\ LET r == IterateHtmlLen(call.command[1], fs)
       IN  outcome' = Outcome(0, "len", IF r.raised = "none" THEN "returned" ELSE r.raised,
                              Some([fs |-> fs, item |-> 0, returned |-> r.value]))
    /\ UNCHANGED << live, fsVars, pc, call, nextUid, calls, published, observed,
                    operation, appended, ends, session >>

\* builder[item], with ./resources/snapshots in the state fs
CallGetItem(fs, item) ==
    /\ call.kind = "iterate_html"
    /\ LET r == IterateHtmlGetItem(call.command[1], fs, item)
       IN  outcome' = Outcome(0, "getitem",
                              IF r.raised = "none" THEN "returned" ELSE r.raised,
                              Some([fs |-> fs, item |-> item, returned |-> r.value]))
    /\ UNCHANGED << live, fsVars, pc, call, nextUid, calls, published, observed,
                    operation, appended, ends, session >>

\* the indices tried: below -n, from the end, in range and past the end
Items ==
    (0 - MaxSnapshots - 1)..(MaxSnapshots + 1)

NextIterate ==
    \/ \E l \in {1, 3}, n \in BOOLEAN : NewIterateHtml(l, n)
    \/ \E fs \in SnapshotFolders : CallLen(fs)
    \/ \E fs \in SnapshotFolders, i \in Items : CallGetItem(fs, i)

SpecIterate ==
    InitCommands /\ [][NextIterate]_vars

\* the number of snapshots of the command the client holds
SnapshotCount(fs) ==
    Cardinality({k \in 1..Len(fs.dir_list) :
                    StartsWith(fs.dir_list[k], call.command[1].params.snapshot_name)})

\* C20 (IterateHtml indexing), as claimed: with n snapshots in the snapshots
\* directory, builder[i] raises IndexError for every i >= n, raises for every
\* negative i, and returns a snapshot only for 0 <= i < n.
C20_IterateIndexing ==
    (outcome.kind = "getitem" /\ outcome.value[1].fs.isdir) =>
        LET n == SnapshotCount(outcome.value[1].fs)
            i == outcome.value[1].item
        IN  /\ i >= n => outcome.result = "IndexError"
            /\ i < 0 => outcome.result # "returned"
            /\ outcome.result = "returned" => (0 <= i /\ i < n)

(* ------------------------------------------------------------------ *)
(* JSON-string constructors of the browser commands (command.py)        *)
(* ------------------------------------------------------------------ *)

\* the members of a JSON object: one name/value pair per key
JsonMembers(d) ==
    {<< k, d[k] >> : k \in DOMAIN d}

\* json.dumps of a wire dict: an object whose member params is an object
JsonDumps(d) ==
    {<< k, IF k = "params" THEN JsonMembers(d[k]) ELSE d[k] >> : k \in DOMAIN d}

\* the dict of the members of a JSON object
JsonObject(members) ==
    [k \in {m[1] : m \in members} |-> (CHOOSE m \in members : m[1] = k)[2]]

\* json.loads of such a text
JsonLoads(text) ==
    LET top == JsonObject(text)
    IN  [k \in DOMAIN top |-> IF k = "params" THEN JsonObject(top[k]) ELSE top[k]]

\* Command.to_json_string
ToJsonString(c) ==
    JsonDumps(CommandToDict(c))

\* the two command modules that define init_from_json_string
CommandModules ==
    {"agent/config", "config"}

\* the class whose init_from_dict V.init_from_json_string calls: in config/command.py
\* always Navigate, in agent/config/command.py V itself but Click for IterateHtml
JsonStringDelegate(module, variant) ==
    IF module = "config"
    THEN "open_web_page"
    ELSE IF variant = "iterate_html" THEN "click" ELSE variant

\* V.init_from_json_string(command)
InitFromJsonString(module, variant, command) ==
    LET command_dict == JsonLoads(command)
        delegate == JsonStringDelegate(module, variant)
    IN  IF module = "config"
        THEN InitFromDictIn("config", delegate, command_dict)
        ELSE InitFromDict(delegate, command_dict, 0)

\* the wire dicts of the browser variants that are built from their params
BrowserWireDicts ==
    {d \in WireDicts : "command_name" \in DOMAIN d /\ d.command_name # "iterate_html"}

\* the same dict as config/command.py writes it: the key is snap_shot_name
ConfigDict(d) ==
    IF d.command_name \in FileVariants
    THEN [d EXCEPT !.params =
            [k \in (DOMAIN d.params \ {"snapshot_name"}) \cup {"snap_shot_name"} |->
                IF k = "snap_shot_name" THEN d.params.snapshot_name ELSE d.params[k]]]
    ELSE d

\* the browser commands of a module, built by their constructors; an IterateHtml
\* built now takes uid as its uuid (config/command.py has no IterateHtml)
BrowserCommandsOf(module, uid) ==
    IF module = "config"
    THEN {InitFromDictIn("config", d.command_name, ConfigDict(d)).value[1] :
            d \in BrowserWireDicts}
    ELSE {InitFromDict(d.command_name, d, 0).value[1] : d \in BrowserWireDicts}
            \cup {IterateHtml(uid, p.iter_limit, p.save_html, p.save_node,
                              p.save_full_page_image, p.pause_time, p.starting_snapshot,
                              p.snapshot_name) : p \in IterateParams}

\* V.init_from_json_string(c.to_json_string()) for a command c of variant V
JsonRoundTrip(module, c) ==
    /\ c \in BrowserCommandsOf(module, nextUid)
    /\ c.command_name = "iterate_html" => nextUid < 2 * MaxCalls
    /\ nextUid' = IF c.command_name = "iterate_html" THEN nextUid + 1 ELSE nextUid
    /\ LET r == InitFromJsonString(module, c.command_name, ToJsonString(c))
       IN  outcome' = Outcome(0, "json_round_trip",
                              IF r.raised = "none" THEN "returned" ELSE r.raised,
                              Some([module |-> module, command |-> c, text |-> ToJsonString(c),
                                    returned |-> r.value]))
    /\ UNCHANGED << live, fsVars, pc, call, calls, published, observed,
                    operation, appended, ends, session >>

NextJson ==
    \E m \in CommandModules : \E c \in BrowserCommandsOf(m, nextUid) : JsonRoundTrip(m, c)

SpecJson ==
    InitCommands /\ [][NextJson]_vars

\* C21 (JSON-string constructors), as claimed: V.init_from_json_string of the
\* JSON string of a browser command of variant V returns a command with the
\* command_name and the params of that command.
C21_JsonStringConstructors ==
    outcome.kind = "json_round_trip" =>
        /\ outcome.result = "returned"
        /\ outcome.value[1].returned # None
        /\ outcome.value[1].returned[1].command_name = outcome.value[1].command.command_name
        /\ outcome.value[1].returned[1].params = outcome.value[1].command.params

(* ------------------------------------------------------------------ *)
(* Properties of the live protocol: session state, footprint, polling   *)
(* ------------------------------------------------------------------ *)

\* the state of the session as the queries _started and exited show it
SessionState ==
    IF ~Started THEN "NOT_STARTED"
    ELSE IF SessionExited = "True" THEN "EXITED"
    ELSE "STARTED"

\* the place of a state in NOT_STARTED -> STARTED -> EXITED
StateRank(state) ==
    CASE state = "NOT_STARTED" -> 0
      [] state = "STARTED" -> 1
      [] state = "EXITED" -> 2

ClientStep ==
    << pc, calls >>' # << pc, calls >>

\* the names a client write opens, and the names a rename produces
TmpNames(files) ==
    {n \in DOMAIN files : n.ext \in {".json.tmp", "exit.json.tmp"}}

\* what a client step may do to commands/: nothing, create a .json.tmp file,
\* write into a .json.tmp file, or rename a .json.tmp file to a new .json name
CommandsFootprint ==
    \/ commandFiles' = commandFiles
    \/ \E n \in TmpNames(commandFiles') \ DOMAIN commandFiles :
            /\ DOMAIN commandFiles' = DOMAIN commandFiles \cup {n}
            /\ \A m \in DOMAIN commandFiles : commandFiles'[m] = commandFiles[m]
    \/ \E n \in TmpNames(commandFiles) :
            /\ DOMAIN commandFiles' = DOMAIN commandFiles
            /\ \A m \in DOMAIN commandFiles \ {n} : commandFiles'[m] = commandFiles[m]
    \/ \E t \in TmpNames(commandFiles) :
       \E n \in JsonNames(commandFiles') \ DOMAIN commandFiles :
            /\ DOMAIN commandFiles' = (DOMAIN commandFiles \ {t}) \cup {n}
            /\ commandFiles'[n] = commandFiles[t]
            /\ \A m \in DOMAIN commandFiles \ {t} : commandFiles'[m] = commandFiles[m]

\* C23 (client write footprint): a step of the client never changes whether
\* commands/ or exit.txt exist nor anything under responses/; in a session
\* that is not live it leaves commands/ alone, and in a live one it only
\* creates and fills .json.tmp files there and renames them to .json.
C23_ClientWriteFootprint ==
    [][ClientStep =>
            /\ UNCHANGED << commandsDir, exitTxt, responses >>
            /\ CommandsFootprint
            /\ ~live => UNCHANGED commandFiles]_vars

\* C23 witness: the client has published a command file and an exit file
C23_Witness ==
    /\ live
    /\ Len(published) > 0
    /\ \E i \in 1..Len(ends) : ends[i] = "written"
    /\ \E n \in DOMAIN commandFiles : n.ext = "exit.json"

\* the agent reads the file of the call that is polling
AgentReadsCall ==
    pc = "poll" /\ AgentReadCommand(FinalPath(call))

\* the agent answers the call that is polling with success.txt or err.txt
AgentAnswersCall ==
    /\ pc = "poll"
    /\ \/ AgentSuccess(call.uid)
       \/ \E m \in ErrMessages : AgentErr(call.uid, m)

\* the command calls of a live session and the agent, without the calls that
\* never poll (exited, end_live_session, add_response, the llm add_* methods)
NextPolling ==
    \/ \E c \in LiveCommands : AddCommand(c)
    \/ Execute
    \/ OpenFile
    \/ DumpFile
    \/ RenameFile
    \/ PollStatus
    \/ LoadCompletion
    \/ AgentStart
    \/ \E n \in DOMAIN commandFiles : AgentReadCommand(n)
    \/ \E u \in Uids : AgentSuccess(u)
    \/ \E u \in Uids, m \in ErrMessages : AgentErr(u, m)
    \/ \E u \in Uids, m \in Replies : AgentCompletion(u, m)
    \/ AgentExit

\* Session(..., live=True) before the agent has started
InitLive ==
    Init /\ live = TRUE

\* a live session with a client that keeps running (the polling loop and the
\* reading of completion.json are taken when they can be) and an agent that
\* eventually reads and answers every published command
SpecAnswered ==
    /\ InitLive
    /\ [][NextPolling]_vars
    /\ WF_vars(PollStatus)
    /\ WF_vars(LoadCompletion)
    /\ WF_vars(AgentReadsCall)
    /\ WF_vars(AgentAnswersCall)

\* a marker file of the call that is polling is under responses/
Answered ==
    \E r \in responses : r.uid = call.uid /\ r.file \in {"success.txt", "err.txt"}

\* C24 (unbounded polling): a call that has published its file stays in its
\* polling loop for as long as responses/<uuid>/ has neither success.txt nor
\* err.txt, whatever else happens (exit.txt included), and leaves the loop only
\* with such a file; with an agent that answers every published command every
\* polling call ends, returned or raised.
C24_UnboundedPolling ==
    /\ [][(pc = "poll" /\ ~Answered) => pc' = "poll"]_vars
    /\ (pc = "poll") ~> (pc = "idle" /\ outcome.id = call.id)

\* C24 witness: a call is still polling, unanswered, in a session that has
\* exited meanwhile
C24_Witness ==
    /\ pc = "poll"
    /\ exitTxt
    /\ ~Answered
    /\ \E r \in agentRead : r.name = FinalPath(call)

\* the command files in commands/ that are not exit files
NonExitJson ==
    {n \in DOMAIN commandFiles : n.ext = ".json"}

\* the published files of one call
PublishedBy(id) ==
    {i \in 1..Len(published) : published[i].call = id}

\* C25 (no local retries): no call publishes more than one command file, a
\* finished add_* or execute() call has published exactly one if it got past
\* its exit check in a live session and none if it raised before writing (or
\* was a batch add), a call that raised CommandError has still published one,
\* and the non-exit .json files of commands/ are never more than the calls made.
C25_NoLocalRetries ==
    /\ \A id \in 1..calls : Cardinality(PublishedBy(id)) <= 1
    /\ Cardinality(NonExitJson) = Len(published)
    /\ Cardinality(NonExitJson) <= calls
    /\ (pc = "idle" /\ outcome.kind \in {"add", "execute"}) =>
            Cardinality(PublishedBy(outcome.id)) =
                IF live /\ outcome.result \in {"returned", "CommandError", "FileNotFoundError"}
                THEN 1
                ELSE 0

\* C25 witness: a call was answered with err.txt and raised, a later call
\* raised before writing, and commands/ holds the one file of the first call
C25_Witness ==
    /\ pc = "idle"
    /\ calls >= 2
    /\ \E i \in 1..Len(published) :
            \E r \in responses : r.uid = published[i].uid /\ r.file = "err.txt"
    /\ outcome.kind \in {"add", "execute"}
    /\ outcome.result = "ConnectionError"
    /\ Cardinality(NonExitJson) = 1

\* the document Agent.run sends to the agent for a list of operations
AgentRunDocument(config) ==
    [operations |-> [i \in 1..Len(config) |-> ToDictOf(config[i])]]

\* C26 (operation order on load), as claimed: the operations load_config returns
\* are those of the document in the document's order, browser and llm mixed, so
\* that the document Agent.run sends lists the types in the order of the file.
C26_OperationOrder ==
    (outcome.kind = "load_config" /\ outcome.result = "returned") =>
        LET document == outcome.value[1].data.operations
            sent == AgentRunDocument(outcome.value[1].returned[1]).operations
        IN  /\ Len(sent) = Len(document)
            /\ \A i \in 1..Len(document) : sent[i].type = document[i].type

\* super()._session_name / super()._live: an attribute set on the instance is
\* not found through super()
SuperGetAttr(op, name) ==
    IF name \in {"_session_name", "_live"}
    THEN Raised("AttributeError")
    ELSE Returned(op[name])

\* _BrowserOperations.add_iterate_html: the command and the list after the call
AddIterateHtmlResult(op, uid, iterate_limit) ==
    LET session_name == SuperGetAttr(op, "_session_name")
        isLive == SuperGetAttr(op, "_live")
        ic == IterateHtml(uid, iterate_limit, TRUE, TRUE, TRUE, 500, 0, << "snapshot" >>)
    IN  IF session_name.raised # "none"
        THEN session_name
        ELSE IF isLive.raised # "none"
        THEN isLive
        ELSE IF isLive.value[1]
        THEN Raised("TypeError")
        ELSE Returned([command |-> ic, commands |-> OperationAppend(op, ic).commands])

\* browser_operation.add_iterate_html(iterate_limit, True, True, True)
AddIterateHtml(iterate_limit) ==
    /\ Idle
    /\ calls' = calls + 1
    /\ LET r == AddIterateHtmlResult(operation.browser, nextUid, iterate_limit)
       IN  /\ outcome' = Outcome(calls + 1, "add_iterate_html",
                                 IF r.raised = "none" THEN "returned" ELSE r.raised,
                                 IF r.raised = "none" THEN Some(r.value[1].command) ELSE None)
           /\ operation' = IF r.raised = "none"
                           THEN [operation EXCEPT !.browser.commands = r.value[1].commands]
                           ELSE operation
           /\ appended' = IF r.raised = "none"
                          THEN [appended EXCEPT !.browser = Append(@, r.value[1].command)]
                          ELSE appended
           /\ nextUid' = IF r.raised = "none" THEN nextUid + 1 ELSE nextUid
    /\ UNCHANGED << live, fsVars, pc, call, published, observed, ends, session >>

\* the live specification with add_iterate_html among the client's calls
NextAdd ==
    \/ Next
    \/ \E l \in {1, 3} : AddIterateHtml(l)

SpecAdd ==
    Init /\ [][NextAdd]_vars

\* C27 (live versus batch effect of add_*), as claimed: a batch add_* returns
\* its command, which is then the last of the operation's list, and no file is
\* ever written; a live add_* that returns has published its file, and the
\* command list of a live browser operation, as to_dict() writes it, stays empty.
C27_LiveVersusBatch ==
    /\ ~live =>
          /\ commandFiles = EmptyDict
          /\ (pc = "idle" /\ outcome.kind \in {"add", "add_iterate_html"}) =>
                /\ outcome.result = "returned"
                /\ operation.browser.commands # << >>
                /\ operation.browser.commands[Len(operation.browser.commands)]
                        = outcome.value[1]
    /\ live =>
          /\ OperationToDict(operation.browser).command_list = << >>
          /\ (pc = "idle" /\ outcome.kind = "add" /\ outcome.result = "returned") =>
                Cardinality(PublishedBy(outcome.id)) = 1

(* ------------------------------------------------------------------ *)
(* The fields of the LLM message commands and their mutators            *)
(* ------------------------------------------------------------------ *)

\* a message command as an object: the command (type, name, params) together
\* with the instance fields self.role and self.content
MessageObject(c, role, content) ==
    [command_type |-> c.command_type, command_name |-> c.command_name,
     params |-> c.params, role |-> role, content |-> content]

\* Standard.__init__: the fields, and params built from their values
StandardObject(role, content) ==
    MessageObject(Standard(role, content), role, content)

\* Multimodal.__init__: self.content is the list that params["content"] holds
MultimodalObject(role) ==
    MessageObject(Multimodal(role), role, << >>)

\* Standard.set_role / Multimodal.set_role: self.role = role
SetRoleOf(o, role) ==
    [o EXCEPT !.role = role]

\* Standard.set_content: self.content = content
SetContentOf(o, content) ==
    [o EXCEPT !.content = content]

\* Multimodal.add_content on the object: the item goes into the one list that
\* self.content and params["content"] both name
AddContentOf(o, ctype, content, b64) ==
    LET r == MultimodalAddContent(o, ctype, content, b64)
    IN  [raised |-> r.raised,
         value |-> Some([r.value[1] EXCEPT !.content = r.value[1].params.content])]

\* Standard(role, content) / Multimodal(role)
NewMessage(variant, role, content) ==
    /\ call' = [NoCall EXCEPT !.kind = variant,
                              !.command = Some(IF variant = "standard"
                                               THEN StandardObject(role, content)
                                               ELSE MultimodalObject(role))]
    /\ outcome' = Outcome(0, variant, "returned", None)
    /\ UNCHANGED << live, fsVars, pc, nextUid, calls, published, observed,
                    operation, appended, ends, session >>

\* m.set_role(role)
SetRole(role) ==
    /\ call.kind \in {"standard", "multimodal"}
    /\ call' = [call EXCEPT !.command = Some(SetRoleOf(call.command[1], role))]
    /\ outcome' = Outcome(0, "set_role", "returned", Some(role))
    /\ UNCHANGED << live, fsVars, pc, nextUid, calls, published, observed,
                    operation, appended, ends, session >>

\* m.set_content(content) on a Standard command
SetContent(content) ==
    /\ call.kind = "standard"
    /\ call' = [call EXCEPT !.command = Some(SetContentOf(call.command[1], content))]
    /\ outcome' = Outcome(0, "set_content", "returned", Some(content))
    /\ UNCHANGED << live, fsVars, pc, nextUid, calls, published, observed,
                    operation, appended, ends, session >>

\* m.add_content(ctype, content) on a Multimodal command
AddContentTo(ctype, content) ==
    /\ call.kind = "multimodal"
    /\ LET r == AddContentOf(call.command[1], ctype, content, FALSE)
       IN  /\ Len(r.value[1].params.content) <= MaxContent
           /\ call' = [call EXCEPT !.command = r.value]
           /\ outcome' = Outcome(0, "add_content",
                                 IF r.raised = "none" THEN "returned" ELSE r.raised,
                                 Some([ctype |-> ctype, content |-> content]))
    /\ UNCHANGED << live, fsVars, pc, nextUid, calls, published, observed,
                    operation, appended, ends, session >>

NextMessage ==
    \/ \E v \in {"standard", "multimodal"}, r \in Roles, t \in {"hi", "yo"} :
            NewMessage(v, r, t)
    \/ \E r \in Roles \cup {"assistant"} : SetRole(r)
    \/ \E t \in {"hi", "yo", "bye"} : SetContent(t)
    \/ \E t \in ContentTypes, c \in {"hi", "http://x/y.png"} : AddContentTo(t, c)

SpecMessage ==
    InitCommands /\ [][NextMessage]_vars

\* C28 (serialized form follows the fields), as claimed: whatever mutators were
\* called on a Standard or Multimodal command, the role and the content inside
\* to_dict()["message"] are the command's role and content fields.
C28_SerializedFollowsFields ==
    call.kind \in {"standard", "multimodal"} =>
        LET o == call.command[1]
            message == CommandToDict(o).message
        IN  /\ message.role = o.role
            /\ message.content = o.content

\* the marker files under responses/<uid>/
Markers(uid) ==
    {r \in responses : r.uid = uid /\ r.file \in {"success.txt", "err.txt"}}

LiveConduit(place) ==
    Some([live |-> TRUE, place |-> place])

Place ==
    session[1].place

\* an __enter__ that returns without looking for commands/
EnterReturns_NoWait ==
    TRUE

\* `while not os.path.isdir(pth)`: __enter__ returns once commands/ is there
EnterReturns ==
    commandsDir

\* end_live_session() has been called: __exit__ is running or has finished
ExitBegun ==
    call.kind = "end" \/ outcome.kind = "end"

InitBracket ==
    /\ live = TRUE
    /\ commandsDir = FALSE
    /\ exitTxt = FALSE
    /\ commandFiles = EmptyDict
    /\ responses = {}
    /\ agentRead = {}
    /\ pc = "idle"
    /\ call = NoCall
    /\ outcome = NoOutcome
    /\ operation = SessionOperations(TRUE, None)
    /\ nextUid = 1
    /\ calls = 0
    /\ published = << >>
    /\ observed = {}
    /\ appended = [browser |-> << >>, llm |-> << >>]
    /\ ends = << >>
    /\ session = LiveConduit("new")

\* LiveConduit.__enter__ up to its loop: subprocess.Popen(["agent", "live", ...])
ConduitEnter ==
    /\ Place = "new"
    /\ session' = LiveConduit("waiting")
    /\ UNCHANGED << live, fsVars, pc, call, outcome, operation, nextUid, calls,
                    published, observed, appended, ends >>

\* the pass of the loop of __enter__ that ends it
ConduitEntered ==
    /\ Place = "waiting"
    /\ EnterReturns
    /\ session' = LiveConduit("inside")
    /\ UNCHANGED << live, fsVars, pc, call, outcome, operation, nextUid, calls,
                    published, observed, appended, ends >>

\* the agent process exists once Popen has run
AgentRunning ==
    Place # "new"

\* a call made by the body of the with statement
InBlock ==
    Place = "inside" /\ ~ExitBegun

\* LiveConduit.__exit__: self._config.end_live_session(), when the body has
\* ended (returned, or raised out of one of its calls)
ConduitExit ==
    /\ InBlock
    /\ EndLiveSession

NextBracket ==
    \/ ConduitEnter
    \/ ConduitEntered
    \/ ConduitExit
    \/ \E c \in LiveCommands : InBlock /\ AddCommand(c)
    \/ InBlock /\ Execute
    \/ InBlock /\ QueryExited
    \/ OpenFile
    \/ DumpFile
    \/ RenameFile
    \/ PollStatus
    \/ LoadCompletion
    \/ AgentRunning /\ AgentStart
    \/ \E n \in DOMAIN commandFiles : AgentReadCommand(n)
    \/ \E u \in Uids : AgentSuccess(u)
    \/ \E u \in Uids, m \in ErrMessages : AgentErr(u, m)
    \/ \E u \in Uids, m \in Replies : AgentCompletion(u, m)
    \/ AgentExit

SpecBracket ==
    InitBracket /\ [][NextBracket]_vars

====
